--------------------------- MODULE ChanneldProofs ---------------------------
(***************************************************************************)
(* Theorems about the channel daemon, for any number of players, channels  *)
(* and messages.                                                           *)
(***************************************************************************)
EXTENDS Channeld, ListProofs

-----------------------------------------------------------------------------
(* What every function of the daemon keeps.                                *)

\* The master, if there is one, is the first of the members, who are members once.
ChannelOK(ch) ==
  /\ IsInjective(Present(ch))
  /\ ch.master # Nil => Present(ch) # <<>> /\ Present(ch)[1] = ch.master

\* The states of the daemon in which its channels are so and have a history.
Good == {d \in Daemon : \A c \in Channels :
           Exists(d, c) => ChannelOK(d.channels[c]) /\ d.channelH[c] # Nil}

Heights == 0 .. MAX_HIST_SIZE + 1

LEMMA Constants ==
  /\ Nil \notin Objects /\ Nil \notin Heights /\ 0 \in Heights
  /\ Players \subseteq Objects /\ CHMASTER \in Objects
BY ChanneldAssumption DEF Objects, Heights

LEMMA PresentIs ==
  ASSUME NEW ch \in Channel
  PROVE  Present(ch) \in Seq(Objects) /\ ToSet(Present(ch)) = ToSet(ch.member) \cap Objects
<1>1. ch.member \in Seq(Objects \cup {Nil}) /\ (Objects \cup {Nil}) \cap Objects = Objects
  BY DEF Channel
<1> QED BY <1>1, ThoseIn, ThoseHas DEF Present

\* A history is cleared, lengthened or begun.
LEMMA SetHistoryGood ==
  ASSUME NEW d \in Good, NEW c \in Channels, NEW h \in Heights
  PROVE  /\ SetHistory(d, c, h) \in Good
         /\ SetHistory(d, c, h).channels = d.channels
         /\ SetHistory(d, c, h).channelC = d.channelC
         /\ SetHistory(d, c, h).channelH = [d.channelH EXCEPT ![c] = h]
<1> DEFINE e == SetHistory(d, c, h)
<1>1. d \in Daemon /\ h \in Heights \cup {Nil} /\ h # Nil
  BY Constants DEF Good
<1>2. d.channelH \in [Channels -> Heights \cup {Nil}] /\ d.memory \in [Channels -> Heights \cup {Nil}]
  BY <1>1 DEF Daemon, History, Heights
<1>3. /\ e.channels = d.channels /\ e.channelC = d.channelC
      /\ e.channelH = [d.channelH EXCEPT ![c] = h]
      /\ e.memory \in {[d.memory EXCEPT ![c] = h], d.memory}
      /\ e \in [channels : {e.channels}, channelH : {e.channelH}, memory : {e.memory},
                shared : {d.shared}, channelC : {e.channelC}, save_me_soon : {d.save_me_soon}]
  BY <1>1, <1>2 DEF SetHistory, Daemon
<1> HIDE DEF e
<1>4. e.channelH \in History /\ e.memory \in History
  BY <1>1, <1>2, <1>3 DEF History, Heights
<1>5. e \in Daemon
  BY <1>1, <1>3, <1>4 DEF Daemon
<1>6. ASSUME NEW x \in Channels, Exists(e, x)
      PROVE  ChannelOK(e.channels[x]) /\ e.channelH[x] # Nil
  <2>1. Exists(d, x)
    BY <1>3, <1>6 DEF Exists
  <2>2. ChannelOK(d.channels[x]) /\ d.channelH[x] # Nil
    BY <2>1 DEF Good
  <2> QED BY <1>1, <1>2, <1>3, <2>2
<1> QED BY <1>3, <1>5, <1>6 DEF Good, e

\* A channel that has a history becomes another one, new or changed.
LEMMA ChannelSet ==
  ASSUME NEW d \in Good, NEW c \in Channels, NEW ch \in Channel, ChannelOK(ch),
         d.channelH[c] # Nil
  PROVE  [d EXCEPT !.channels[c] = ch] \in Good
<1> DEFINE e == [d EXCEPT !.channels[c] = ch]
<1>1. d \in Daemon /\ d.channels \in [Channels -> Channel \cup {Nil}]
  BY DEF Good, Daemon
<1>2. e \in Daemon /\ e.channels = [d.channels EXCEPT ![c] = ch] /\ e.channelH = d.channelH
  BY <1>1 DEF Daemon
<1> HIDE DEF e
<1>3. ASSUME NEW x \in Channels, Exists(e, x)
      PROVE  ChannelOK(e.channels[x]) /\ e.channelH[x] # Nil
  <2>1. CASE x = c
    BY <1>1, <1>2, <2>1
  <2>2. CASE x # c
    BY <1>1, <1>2, <1>3, <2>2 DEF Exists, Good
  <2> QED BY <2>1, <2>2
<1> QED BY <1>2, <1>3 DEF Good, e

\* What concerns only the cache and its saving.
LEMMA CacheSet ==
  ASSUME NEW d \in Good, NEW cc \in [Channels -> Texts \cup {Nil}], NEW b \in BOOLEAN
  PROVE  [d EXCEPT !.channelC = cc, !.save_me_soon = b] \in Good
<1> DEFINE e == [d EXCEPT !.channelC = cc, !.save_me_soon = b]
<1>1. e \in Daemon /\ e.channels = d.channels /\ e.channelH = d.channelH
  BY DEF Good, Daemon
<1> HIDE DEF e
<1>2. \A x \in Channels : Exists(e, x) => ChannelOK(e.channels[x]) /\ e.channelH[x] # Nil
  BY <1>1 DEF Exists, Good
<1> QED BY <1>1, <1>2 DEF Good, e

\* The channel is deleted.
LEMMA DisposedGood ==
  ASSUME NEW d \in Good, NEW c \in Channels
  PROVE  Disposed(d, c) \in Good /\ Disposed(d, c).channels = [d.channels EXCEPT ![c] = Nil]
<1> DEFINE e == Disposed(d, c)
<1>1. /\ d \in Daemon /\ d.channels \in [Channels -> Channel \cup {Nil}]
      /\ d.channelH \in [Channels -> Heights \cup {Nil}]
  BY DEF Good, Daemon, History, Heights
<1>2. /\ e \in Daemon /\ e.channels = [d.channels EXCEPT ![c] = Nil]
      /\ e.channelH = [d.channelH EXCEPT ![c] = Nil]
  BY <1>1 DEF Disposed, Daemon, History
<1> HIDE DEF e
<1>3. ASSUME NEW x \in Channels, Exists(e, x)
      PROVE  ChannelOK(e.channels[x]) /\ e.channelH[x] # Nil
  <2>1. x # c
    BY <1>1, <1>2, <1>3 DEF Exists
  <2> QED BY <1>1, <1>2, <1>3, <2>1 DEF Exists, Good
<1> QED BY <1>2, <1>3 DEF Good, e

-----------------------------------------------------------------------------
(* The functions.                                                          *)

\* The founder of a channel is its only member and its master.
LEMMA FoundedOK ==
  ASSUME NEW pl \in Objects, NEW text \in Texts
  PROVE  LET ch == [member |-> <<pl>>, master |-> pl, info |-> text]
         IN ch \in Channel /\ ChannelOK(ch)
<1> DEFINE ch == [member |-> <<pl>>, master |-> pl, info |-> text]
<1>1. <<pl>> \in Seq(Objects) /\ <<pl>> \in Seq(Objects \cup {Nil})
  OBVIOUS
<1>2. ch \in Channel /\ ch.member = <<pl>> /\ ch.master = pl
  BY <1>1 DEF Channel
<1>3. Present(ch) = <<pl>>
  BY <1>1, <1>2, ThoseAll DEF Present
<1>4. IsInjective(<<pl>>) /\ <<pl>> # <<>> /\ <<pl>>[1] = pl
  BY DEF IsInjective
<1> QED BY <1>2, <1>3, <1>4 DEF ChannelOK

LEMMA NewGood ==
  ASSUME NEW d \in Good, NEW c \in Channels, NEW pl \in Objects, NEW info \in Texts \cup {Nil}
  PROVE  New(d, c, pl, info).d \in Good
<1> DEFINE text == IF info = Nil THEN d.channelC[c] ELSE info
           h == IF d.channelH[c] = Nil THEN 0 ELSE d.channelH[c]
           e == SetHistory(d, c, h)
           ch == [member |-> <<pl>>, master |-> pl, info |-> text]
           denied == \/ Exists(d, c)
                     \/ Cardinality({x \in Channels : Exists(d, x)}) >= MAX_CHANNELS
                     \/ info = Nil /\ d.channelC[c] = Nil
<1>1. CASE denied
  BY <1>1 DEF New, Denied
<1>2. CASE ~denied
  <2>1. /\ d.channelC \in [Channels -> Texts \cup {Nil}]
        /\ d.channelH \in [Channels -> Heights \cup {Nil}]
    BY DEF Good, Daemon, History, Heights
  <2>2. text \in Texts /\ h \in Heights
    BY <1>2, <2>1, Constants
  <2>3. New(d, c, pl, info).d =
          [e EXCEPT !.channels[c] = ch, !.channelC[c] = text, !.save_me_soon = TRUE]
    BY <1>2 DEF New, Ok
  <2>4. e \in Good /\ e.channelH[c] # Nil /\ e.channelC = d.channelC
    <3> HIDE DEF h
    <3>1. e \in Good /\ e.channelC = d.channelC /\ e.channelH = [d.channelH EXCEPT ![c] = h]
      BY <2>2, SetHistoryGood
    <3>2. e.channelH[c] = h
      BY <2>1, <3>1
    <3> QED BY <2>2, <3>1, <3>2, Constants
  <2>5. ch \in Channel /\ ChannelOK(ch)
    BY <2>2, FoundedOK
  <2> HIDE DEF e, ch, text
  <2> DEFINE m == [e EXCEPT !.channels[c] = ch]
             cc == [e.channelC EXCEPT ![c] = text]
  <2>6. m \in Good
    BY <2>4, <2>5, ChannelSet
  <2>7. cc \in [Channels -> Texts \cup {Nil}]
    BY <2>1, <2>2, <2>4
  <2>8. [m EXCEPT !.channelC = cc, !.save_me_soon = TRUE] \in Good
    <3> HIDE DEF m, cc
    <3> QED BY <2>6, <2>7, CacheSet
  <2>9. New(d, c, pl, info).d = [m EXCEPT !.channelC = cc, !.save_me_soon = TRUE]
    <3>1. e \in Daemon
      BY <2>4 DEF Good
    <3> HIDE DEF Good
    <3>2. [e EXCEPT !.channels[c] = ch, !.channelC[c] = text, !.save_me_soon = TRUE] =
            [m EXCEPT !.channelC = cc, !.save_me_soon = TRUE]
      BY <3>1 DEF Daemon
    <3> QED BY <2>3, <3>2
  <2> QED BY <2>8, <2>9
<1> QED BY <1>1, <1>2

\* Who is not a member becomes the last one.
LEMMA JoinGood ==
  ASSUME NEW d \in Good, NEW c \in Channels, NEW pl \in Objects
  PROVE  Join(d, c, pl).d \in Good /\ Join(d, c, pl).ok \in BOOLEAN
<1> DEFINE denied == ~Exists(d, c) \/ Contains(d.channels[c].member, pl)
<1>1. CASE denied
  BY <1>1 DEF Join, Denied
<1>2. CASE ~denied
  <2> DEFINE old == d.channels[c]
             ch == [old EXCEPT !.member = Append(@, pl)]
  <2>1. old \in Channel /\ ChannelOK(old) /\ d.channelH[c] # Nil /\ ~Contains(old.member, pl)
    BY <1>2 DEF Good, Daemon, Exists
  <2>2. Join(d, c, pl) = [d |-> [d EXCEPT !.channels[c].member = Append(@, pl)], ok |-> TRUE]
    BY <1>2 DEF Join, Ok
  <2>3. [d EXCEPT !.channels[c].member = Append(@, pl)] = [d EXCEPT !.channels[c] = ch]
    BY DEF Good, Daemon
  <2> HIDE DEF old
  <2>4. old.member \in Seq(Objects \cup {Nil}) /\ Append(old.member, pl) \in Seq(Objects \cup {Nil})
    BY <2>1 DEF Channel
  <2>5. ch \in Channel /\ ch.member = Append(old.member, pl) /\ ch.master = old.master
    BY <2>1, <2>4 DEF Channel
  <2> HIDE DEF ch
  <2>6. Present(ch) = Append(Present(old), pl)
    <3>1. pl \in Objects \cup {Nil}
      OBVIOUS
    <3> QED BY <2>4, <2>5, <3>1, ThoseAppend DEF Present
  <2>7. Present(old) \in Seq(Objects) /\ pl \notin ToSet(Present(old))
    BY <2>1, <2>4, PresentIs DEF Contains, ToSet
  <2>8. ChannelOK(ch)
    <3>1. IsInjective(Present(ch))
      BY <2>1, <2>6, <2>7, AppendOnce DEF ChannelOK
    <3>2. Present(ch) # <<>> /\ (Present(old) # <<>> => Present(ch)[1] = Present(old)[1])
      BY <2>6, <2>7
    <3> QED BY <2>1, <2>5, <3>1, <3>2 DEF ChannelOK
  <2>9. [d EXCEPT !.channels[c] = ch] \in Good
    BY <2>1, <2>5, <2>8, ChannelSet
  <2> QED BY <2>2, <2>3, <2>9 DEF ch
<1> QED BY <1>1, <1>2

LEMMA NotedGood ==
  ASSUME NEW d \in Good, NEW c \in Channels, Exists(d, c)
  PROVE  /\ Noted(d, c) \in Good /\ Noted(d, c).channels = d.channels
         /\ Noted(d, c).channelC = d.channelC
<1> DEFINE h == d.channelH[c]
<1>1. h \in Heights
  BY DEF Good, Daemon, History, Heights
<1>2. (IF h > MAX_HIST_SIZE THEN h ELSE h + 1) \in Heights
  BY <1>1, ChanneldAssumption DEF Heights
<1> QED BY <1>2, SetHistoryGood DEF Noted

LEMMA SendGood ==
  ASSUME NEW d \in Good, NEW c \in Channels, NEW pl \in Objects
  PROVE  Send(d, c, pl).d \in Good
BY NotedGood DEF Send, Denied, Ok

-----------------------------------------------------------------------------
(* Leaving a channel.                                                      *)

\* t is s without one position, at which there is e.
OneTaken(t, s, e) ==
  \E i \in 1 .. Len(s) : /\ s[i] = e
    /\ \A k \in 1 .. Len(s) - 1 : t[k] = IF k < i THEN s[k] ELSE s[k + 1]

\* RemoveFirst() takes away one position.
LEMMA RemoveFirstIs ==
  ASSUME NEW C, NEW s \in Seq(C), NEW e, Contains(s, e), IsInjective(s)
  PROVE  /\ RemoveFirst(s, e) \in Seq(C) /\ Len(RemoveFirst(s, e)) = Len(s) - 1
         /\ OneTaken(RemoveFirst(s, e), s, e)
<1> DEFINE I == {j \in 1 .. Len(s) : s[j] = e}
           i == Min(I)
<1>1. Len(s) \in Nat /\ DOMAIN s = 1 .. Len(s) /\ \A j \in 1 .. Len(s) : s[j] \in C
  BY LenProperties
<1>2. PICK j \in 1 .. Len(s) : s[j] = e
  BY DEF Contains
<1>3. I = {j}
  BY <1>1, <1>2 DEF IsInjective
<1>4. i = j
  BY <1>1, <1>2, <1>3 DEF Min
<1>5. RemoveFirst(s, e) = SubSeq(s, 1, j - 1) \o SubSeq(s, j + 1, Len(s))
  BY <1>2, <1>3, <1>4 DEF RemoveFirst, RemoveAt, SelectInSeq
<1> HIDE DEF I, i
<1>6. /\ SubSeq(s, 1, j - 1) \in Seq(C) /\ Len(SubSeq(s, 1, j - 1)) = j - 1
      /\ \A k \in 1 .. j - 1 : SubSeq(s, 1, j - 1)[k] = s[k]
      /\ SubSeq(s, j + 1, Len(s)) \in Seq(C) /\ Len(SubSeq(s, j + 1, Len(s))) = Len(s) - j
      /\ \A k \in 1 .. Len(s) - j : SubSeq(s, j + 1, Len(s))[k] = s[j + k]
  <2>1. \A m, n \in Int : (\A k \in m .. n : s[k] \in C) =>
          /\ SubSeq(s, m, n) \in Seq(C) /\ Len(SubSeq(s, m, n)) = IF m <= n THEN n - m + 1 ELSE 0
          /\ \A k \in 1 .. n - m + 1 : SubSeq(s, m, n)[k] = s[m + k - 1]
    BY SubSeqProperties
  <2>2. \A k \in 1 .. j - 1 : s[k] \in C
    BY <1>1
  <2>3. \A k \in j + 1 .. Len(s) : s[k] \in C
    BY <1>1
  <2>4. /\ SubSeq(s, 1, j - 1) \in Seq(C) /\ Len(SubSeq(s, 1, j - 1)) = j - 1
        /\ \A k \in 1 .. j - 1 : SubSeq(s, 1, j - 1)[k] = s[k]
    BY <1>1, <2>1, <2>2
  <2>5. /\ SubSeq(s, j + 1, Len(s)) \in Seq(C) /\ Len(SubSeq(s, j + 1, Len(s))) = Len(s) - j
        /\ \A k \in 1 .. Len(s) - j : SubSeq(s, j + 1, Len(s))[k] = s[j + k]
    <3>1. j + 1 \in Int /\ Len(s) \in Int /\ Len(s) - (j + 1) + 1 = Len(s) - j
          /\ Len(s) - j = IF j + 1 <= Len(s) THEN Len(s) - (j + 1) + 1 ELSE 0
      <4> DEFINE n == Len(s)
      <4>1. n \in Nat /\ j \in 1 .. n
        BY <1>1
      <4> HIDE DEF n
      <4>2. /\ j + 1 \in Int /\ n \in Int /\ n - (j + 1) + 1 = n - j
            /\ n - j = IF j + 1 <= n THEN n - (j + 1) + 1 ELSE 0
        BY <4>1
      <4> QED BY <4>2 DEF n
    <3>2. /\ SubSeq(s, j + 1, Len(s)) \in Seq(C) /\ Len(SubSeq(s, j + 1, Len(s))) = Len(s) - j
          /\ \A k \in 1 .. Len(s) - j : SubSeq(s, j + 1, Len(s))[k] = s[(j + 1) + k - 1]
      BY <2>1, <2>3, <3>1
    <3>3. \A k \in 1 .. Len(s) - j : (j + 1) + k - 1 = j + k
      BY <1>1
    <3> QED BY <3>2, <3>3
  <2> QED BY <2>4, <2>5
<1> DEFINE a == SubSeq(s, 1, j - 1)
           b == SubSeq(s, j + 1, Len(s))
<1> HIDE DEF a, b
<1>7. /\ a \o b \in Seq(C) /\ Len(a \o b) = Len(s) - 1
      /\ \A k \in 1 .. Len(s) - 1 : (a \o b)[k] = IF k < j THEN s[k] ELSE s[k + 1]
  <2>1. /\ a \in Seq(C) /\ b \in Seq(C) /\ Len(a) = j - 1 /\ Len(b) = Len(s) - j
        /\ \A k \in 1 .. j - 1 : a[k] = s[k]
        /\ \A k \in 1 .. Len(s) - j : b[k] = s[j + k]
    BY <1>6 DEF a, b
  <2>2. /\ a \o b \in Seq(C) /\ Len(a \o b) = Len(a) + Len(b)
        /\ \A k \in 1 .. Len(a) + Len(b) : (a \o b)[k] = IF k <= Len(a) THEN a[k] ELSE b[k - Len(a)]
    BY <2>1, ConcatProperties
  <2>3. ASSUME NEW k \in 1 .. Len(s) - 1 PROVE (a \o b)[k] = IF k < j THEN s[k] ELSE s[k + 1]
    <3>1. CASE k < j
      BY <1>1, <2>1, <2>2, <3>1
    <3>2. CASE ~(k < j)
      <4>1. k - (j - 1) \in 1 .. Len(s) - j /\ j + (k - (j - 1)) = k + 1
        BY <1>1, <3>2
      <4>2. (a \o b)[k] = b[k - (j - 1)]
        BY <1>1, <2>1, <2>2, <3>2
      <4> QED BY <2>1, <3>2, <4>1, <4>2
    <3> QED BY <3>1, <3>2
  <2> QED BY <1>1, <2>1, <2>2, <2>3
<1> QED BY <1>2, <1>5, <1>7 DEF a, b, OneTaken

\* Whoever leaves as master leaves the channel to the second member, who then
\* is the first; if anybody else leaves the master stays the first.
LEMMA LeftOK ==
  ASSUME NEW ch \in Channel, ChannelOK(ch), NEW pl \in Objects, Contains(Present(ch), pl)
  PROVE  LET here == Present(ch)
             left == RemoveFirst(here, pl)
             handover == ch.master = pl /\ Len(here) > 1
             new == [ch EXCEPT !.member = left,
                               !.master = IF handover THEN here[2] ELSE @]
         IN new \in Channel /\ (left # <<>> => ChannelOK(new))
<1> DEFINE here == Present(ch)
           left == RemoveFirst(here, pl)
           handover == ch.master = pl /\ Len(here) > 1
           master == IF handover THEN here[2] ELSE ch.master
           new == [ch EXCEPT !.member = left, !.master = master]
<1>1. /\ here \in Seq(Objects) /\ IsInjective(here) /\ Len(here) \in Nat
      /\ DOMAIN here = 1 .. Len(here) /\ \A i \in 1 .. Len(here) : here[i] \in Objects
      /\ ch.master # Nil => here # <<>> /\ here[1] = ch.master
  <2>1. here \in Seq(Objects)
    BY PresentIs
  <2> QED BY <2>1, LenProperties DEF ChannelOK
<1>2. left \in Seq(Objects) /\ Len(left) = Len(here) - 1 /\ OneTaken(left, here, pl)
  <2>1. Contains(here, pl)
    OBVIOUS
  <2> HIDE DEF here
  <2> QED BY <1>1, <2>1, RemoveFirstIs
<1> HIDE DEF left, here
<1>3. PICK i \in 1 .. Len(here) : /\ here[i] = pl
        /\ \A k \in 1 .. Len(here) - 1 : left[k] = IF k < i THEN here[k] ELSE here[k + 1]
  BY <1>2 DEF OneTaken
<1>4. /\ left \in Seq(Objects \cup {Nil}) /\ DOMAIN left = 1 .. Len(left)
  BY <1>2, LenProperties, SeqMonotonic
<1>5. master \in Objects \cup {Nil}
  BY <1>1 DEF Channel
<1>6. new \in Channel /\ new.member = left /\ new.master = master
  <2> HIDE DEF master
  <2> QED BY <1>4, <1>5 DEF Channel
<1>7. ASSUME left # <<>> PROVE ChannelOK(new)
  <2>0. Len(left) \in Nat /\ Len(left) # 0
    BY <1>2, <1>7, EmptySeq, LenProperties
  <2> HIDE DEF new, master
  <2>1. Present(new) = left
    BY <1>2, <1>6, ThoseAll DEF Present
  <2>2. IsInjective(left)
    <3>1. ASSUME NEW a \in 1 .. Len(left), NEW b \in 1 .. Len(left), left[a] = left[b] PROVE a = b
      <4>1. /\ left[a] = IF a < i THEN here[a] ELSE here[a + 1]
            /\ left[b] = IF b < i THEN here[b] ELSE here[b + 1]
        BY <1>2, <1>3
      <4>2. {a, a + 1, b, b + 1} \subseteq 1 .. Len(here)
        BY <1>1, <1>2
      <4>3. \A x, y \in 1 .. Len(here) : here[x] = here[y] => x = y
        BY <1>1 DEF IsInjective
      <4>4. a \in Int /\ b \in Int /\ i \in Int
        BY <1>1, <1>2
      <4> DEFINE x == IF a < i THEN a ELSE a + 1
                 y == IF b < i THEN b ELSE b + 1
      <4>5. here[x] = here[y] /\ x \in 1 .. Len(here) /\ y \in 1 .. Len(here)
        BY <3>1, <4>1, <4>2
      <4>6. x = y
        BY <4>3, <4>5
      <4> QED BY <4>4, <4>6
    <3> QED BY <1>4, <3>1 DEF IsInjective
  <2>3. ASSUME master # Nil PROVE left[1] = master
    <3>1. Len(here) > 1 /\ 1 \in 1 .. Len(here) - 1 /\ {1, 2} \subseteq 1 .. Len(here)
      BY <1>1, <1>2, <2>0
    <3>2. left[1] = IF 1 < i THEN here[1] ELSE here[2]
      BY <1>3, <3>1
    <3>3. \A x, y \in 1 .. Len(here) : here[x] = here[y] => x = y
      BY <1>1 DEF IsInjective
    <3>4. ch.master # Nil
      BY <1>1, <2>3, <3>1, Constants DEF master
    <3>5. here[1] = ch.master
      BY <1>1, <3>4
    <3>6. CASE ch.master = pl
      BY <1>3, <3>1, <3>2, <3>3, <3>5, <3>6 DEF master
    <3>7. CASE ch.master # pl
      BY <1>3, <3>1, <3>2, <3>5, <3>7 DEF master
    <3> QED BY <3>6, <3>7
  <2> QED BY <1>6, <1>7, <2>1, <2>2, <2>3 DEF ChannelOK
<1> QED BY <1>6, <1>7 DEF here, left

\* Other channels are not touched by it, and whoever is a member leaves.
LEMMA LeaveGood ==
  ASSUME NEW d \in Good, NEW c \in Channels, NEW pl \in Objects
  PROVE  /\ Leave(d, c, pl).d \in Good /\ Leave(d, c, pl).ok \in BOOLEAN
         /\ \A x \in Channels \ {c} : Leave(d, c, pl).d.channels[x] = d.channels[x]
         /\ Exists(d, c) /\ Contains(d.channels[c].member, pl) => Leave(d, c, pl).ok
<1>1. CASE ~Exists(d, c)
  BY <1>1 DEF Leave, Denied
<1>2. CASE Exists(d, c)
  <2> DEFINE ch == d.channels[c]
             here == Present(ch)
             left == RemoveFirst(here, pl)
             handover == ch.master = pl /\ Len(here) > 1
             from == IF handover THEN Noted(d, c) ELSE d
             gone == [ch EXCEPT !.member = left, !.master = IF handover THEN here[2] ELSE @]
             cleaned == [ch EXCEPT !.member = here]
             new == [from EXCEPT !.channels[c].member = left,
                                 !.channels[c].master = IF handover THEN here[2] ELSE @]
  <2>1. /\ ch \in Channel /\ ChannelOK(ch) /\ d.channelH[c] # Nil /\ d \in Daemon
        /\ d.channels \in [Channels -> Channel \cup {Nil}]
    BY <1>2 DEF Good, Daemon, Exists
  <2>2. /\ from \in Good /\ from.channels = d.channels /\ from.channelC = d.channelC
        /\ from \in Daemon
    BY <1>2, NotedGood DEF Good
  <2>3. from.channelH[c] # Nil
    BY <1>2, <2>2 DEF Good, Exists
  <2>4. Leave(d, c, pl) =
          IF ~Contains(here, pl) THEN [d |-> [d EXCEPT !.channels[c].member = here], ok |-> FALSE]
          ELSE IF left = <<>>
            THEN [d |-> [Disposed(new, c) EXCEPT !.channelC[c] = ch.info], ok |-> TRUE]
            ELSE [d |-> new, ok |-> TRUE]
    BY <1>2 DEF Leave, Denied, Ok
  <2>5. [d EXCEPT !.channels[c].member = here] = [d EXCEPT !.channels[c] = cleaned]
    BY <2>1 DEF Daemon
  <2>6. new = [from EXCEPT !.channels[c] = gone]
    <3> HIDE DEF from, left, here
    <3>1. from.channels[c] = ch
      BY <2>2
    <3> QED BY <2>2, <3>1 DEF Daemon
  <2> HIDE DEF from, new, left, here
  <2>7. cleaned \in Channel /\ ChannelOK(cleaned)
    <3>1. here \in Seq(Objects) /\ here \in Seq(Objects \cup {Nil})
      BY <2>1, PresentIs, SeqMonotonic DEF here
    <3>2. cleaned \in Channel /\ cleaned.member = here /\ cleaned.master = ch.master
      BY <2>1, <3>1 DEF Channel
    <3>3. Present(cleaned) = here
      BY <3>1, <3>2, ThoseAll DEF Present
    <3> HIDE DEF ch
    <3> QED BY <2>1, <3>2, <3>3 DEF ChannelOK, here
  <2>8. CASE ~Contains(here, pl)
    <3>1. Leave(d, c, pl).d = [d EXCEPT !.channels[c] = cleaned] /\ Leave(d, c, pl).ok = FALSE
      <4> DEFINE e1 == [d EXCEPT !.channels[c].member = here]
      <4>1. e1 = [d EXCEPT !.channels[c] = cleaned]
        BY <2>5
      <4>2. Leave(d, c, pl) = [d |-> e1, ok |-> FALSE]
        BY <2>4, <2>8
      <4> HIDE DEF e1, cleaned
      <4> QED BY <4>1, <4>2
    <3>2. [d EXCEPT !.channels[c] = cleaned] \in Good
      BY <2>1, <2>7, ChannelSet
    <3>3. [d EXCEPT !.channels[c] = cleaned].channels = [d.channels EXCEPT ![c] = cleaned]
      BY <2>1 DEF Daemon
    <3>4. ~Contains(ch.member, pl)
      <4>1. ToSet(here) = ToSet(ch.member) \cap Objects
        BY <2>1, PresentIs DEF here
      <4>2. pl \notin ToSet(here)
        <5>1. here \in Seq(Objects)
          BY <2>1, PresentIs DEF here
        <5> QED BY <2>8, <5>1, LenProperties DEF Contains, ToSet
      <4>3. ch.member \in Seq(Objects \cup {Nil})
        BY <2>1 DEF Channel
      <4> QED BY <4>1, <4>2, <4>3, LenProperties DEF Contains, ToSet
    <3> HIDE DEF cleaned
    <3>5. \A x \in Channels \ {c} : Leave(d, c, pl).d.channels[x] = d.channels[x]
      BY <2>1, <3>1, <3>3
    <3> QED BY <3>1, <3>2, <3>4, <3>5
  <2>9. CASE Contains(here, pl)
    <3>1. gone \in Channel /\ (left # <<>> => ChannelOK(gone))
      BY <2>1, <2>9, LeftOK DEF here, left
    <3> HIDE DEF gone
    <3>2. new.channels = [d.channels EXCEPT ![c] = gone] /\ new \in Daemon
      BY <2>2, <2>6, <3>1 DEF Daemon
    <3>3. CASE left # <<>>
      <4>1. new \in Good
        BY <2>2, <2>3, <2>6, <3>1, <3>3, ChannelSet
      <4>2. Leave(d, c, pl).d = new /\ Leave(d, c, pl).ok = TRUE
        BY <2>4, <2>9, <3>3
      <4> QED BY <2>1, <3>2, <4>1, <4>2
    <3>4. CASE left = <<>>
      <4> DEFINE e == Disposed(new, c)
                 e0 == Disposed(from, c)
                 cc == [e0.channelC EXCEPT ![c] = ch.info]
      <4>1. e = e0
        BY <2>2, <2>6, <3>1 DEF Disposed, Daemon
      <4>2. e0 \in Good /\ e0.channels = [d.channels EXCEPT ![c] = Nil]
        BY <2>2, DisposedGood
      <4>3. Leave(d, c, pl).d = [e EXCEPT !.channelC[c] = ch.info] /\ Leave(d, c, pl).ok = TRUE
        BY <2>4, <2>9, <3>4
      <4> HIDE DEF e, e0
      <4>4. cc \in [Channels -> Texts \cup {Nil}] /\ e0.save_me_soon \in BOOLEAN /\ e0 \in Daemon
        BY <2>1, <4>2 DEF Good, Daemon, Channel
      <4>5. [e0 EXCEPT !.channelC[c] = ch.info] =
              [e0 EXCEPT !.channelC = cc, !.save_me_soon = e0.save_me_soon]
        BY <4>4 DEF Daemon
      <4>6. [e0 EXCEPT !.channelC = cc, !.save_me_soon = e0.save_me_soon] \in Good
        <5> HIDE DEF cc
        <5> QED BY <4>2, <4>4, CacheSet
      <4>7. [e0 EXCEPT !.channelC[c] = ch.info].channels = e0.channels
        BY <4>4 DEF Daemon
      <4> HIDE DEF ch, cc
      <4>8. Leave(d, c, pl).d \in Good
        BY <4>1, <4>3, <4>5, <4>6
      <4>9. Leave(d, c, pl).d.channels = [d.channels EXCEPT ![c] = Nil]
        BY <4>1, <4>2, <4>3, <4>7
      <4>10. \A x \in Channels \ {c} : Leave(d, c, pl).d.channels[x] = d.channels[x]
        BY <2>1, <4>9
      <4> QED BY <4>3, <4>8, <4>10
    <3> QED BY <3>3, <3>4
  <2> QED BY <2>8, <2>9
<1> QED BY <1>1, <1>2

-----------------------------------------------------------------------------
(* What is done for one channel after the other.                           *)

LEMMA FailingLeaveRun ==
  ASSUME NEW d \in Good, NEW names \in Seq(Channels), NEW pl \in Objects
  PROVE  \E r :
    /\ r[0] = [d |-> d, err |-> <<>>] /\ Failing(Leave, d, names, pl) = r[Len(names)]
    /\ \A k \in 0 .. Len(names) : r[k] \in [d : Good, err : Seq(Channels)]
    /\ \A k \in 1 .. Len(names) :
         r[k] = [d   |-> Leave(r[k - 1].d, names[k], pl).d,
                 err |-> IF Leave(r[k - 1].d, names[k], pl).ok THEN r[k - 1].err
                         ELSE Append(r[k - 1].err, names[k])]
<1> DEFINE n == Len(names)
           A == [d : Good, err : Seq(Channels)]
           b == [d |-> d, err |-> <<>>]
           Step(a, x) == [d   |-> Leave(a.d, x, pl).d,
                          err |-> IF Leave(a.d, x, pl).ok THEN a.err ELSE Append(a.err, x)]
           g == [y \in A \X Channels |-> Step(y[1], y[2])]
           F(h) == [S \in SUBSET DOMAIN names |->
                      IF S = {} THEN b ELSE Step(h[S \ {Max(S)}], names[Max(S)])]
           c == CHOOSE h : h = F(h)
<1>1. n \in Nat /\ DOMAIN names = 1 .. n /\ \A i \in 1 .. n : names[i] \in Channels
  BY LenProperties
<1>2. \A a \in A, x \in Channels : Step(a, x) \in A
  BY LeaveGood, AppendProperties
<1>3. b \in A
  BY EmptySeq
<1>4. Failing(Leave, d, names, pl) = c[DOMAIN names]
  BY DEF Failing, FoldLeft, MapThenFoldSet
<1> HIDE DEF A, b, Step, n
<1>5. PICK h : Folds(h, A, b, g, names)
  <2>1. g \in [A \X Channels -> A]
    BY <1>2
  <2> HIDE DEF g
  <2> QED BY <1>3, <2>1, FoldExists
<1>6. h = F(h)
  <2>1. ASSUME NEW S \in SUBSET DOMAIN names, S # {}
        PROVE  g[<<h[S \ {Max(S)}], names[Max(S)]>>] = Step(h[S \ {Max(S)}], names[Max(S)])
    <3>1. Max(S) \in DOMAIN names
      BY <1>1, <2>1, MaxOfPositions
    <3>2. h[S \ {Max(S)}] \in A /\ names[Max(S)] \in Channels
      BY <1>1, <1>5, <3>1 DEF Folds
    <3> QED BY <3>2
  <2> HIDE DEF g
  <2> QED BY <1>5, <2>1 DEF Folds
<1>7. c = F(c)
  <2> HIDE DEF F
  <2> QED BY <1>6
<1> HIDE DEF c
<1> DEFINE r == [k \in 0 .. n |-> c[1 .. k]]
<1>8. r[0] = b
  <2>1. 1 .. 0 = {} /\ 0 \in 0 .. n
    BY <1>1
  <2> QED BY <1>7, <2>1
<1>9. ASSUME NEW k \in 1 .. n PROVE r[k] = Step(r[k - 1], names[k])
  <2>1. /\ 1 .. k # {} /\ 1 .. k \in SUBSET (1 .. n)
        /\ Max(1 .. k) = k /\ (1 .. k) \ {k} = 1 .. (k - 1)
    BY <1>1, MaxOfUpTo
  <2>2. k \in 0 .. n /\ k - 1 \in 0 .. n
    BY <1>1
  <2>3. c[1 .. k] = Step(c[1 .. (k - 1)], names[k])
    BY <1>1, <1>7, <2>1
  <2> QED BY <2>2, <2>3
<1>10. Failing(Leave, d, names, pl) = r[n]
  BY <1>1, <1>4
<1> HIDE DEF r
<1>11. \A k \in 0 .. n : r[k] \in A
  <2>1. \A k \in 1 .. n : r[k - 1] \in A => r[k] \in A
    BY <1>1, <1>2, <1>9
  <2> QED BY <1>1, <1>3, <1>8, <2>1, StaysIn
<1> QED BY <1>8, <1>9, <1>10, <1>11 DEF n, A, b, Step

LEMMA FailingJoinGood ==
  ASSUME NEW d \in Good, NEW names \in Seq(Channels), NEW pl \in Objects
  PROVE  Failing(Join, d, names, pl) \in [d : Good, err : Seq(Channels)]
<1> DEFINE n == Len(names)
           A == [d : Good, err : Seq(Channels)]
           b == [d |-> d, err |-> <<>>]
           Step(a, x) == [d   |-> Join(a.d, x, pl).d,
                          err |-> IF Join(a.d, x, pl).ok THEN a.err ELSE Append(a.err, x)]
           g == [y \in A \X Channels |-> Step(y[1], y[2])]
           F(h) == [S \in SUBSET DOMAIN names |->
                      IF S = {} THEN b ELSE Step(h[S \ {Max(S)}], names[Max(S)])]
           c == CHOOSE h : h = F(h)
<1>1. n \in Nat /\ DOMAIN names = 1 .. n /\ \A i \in 1 .. n : names[i] \in Channels
  BY LenProperties
<1>2. \A a \in A, x \in Channels : Step(a, x) \in A
  BY JoinGood, AppendProperties
<1>3. b \in A
  BY EmptySeq
<1>4. Failing(Join, d, names, pl) = c[DOMAIN names]
  BY DEF Failing, FoldLeft, MapThenFoldSet
<1> HIDE DEF A, b, Step, n
<1>5. PICK h : Folds(h, A, b, g, names)
  <2>1. g \in [A \X Channels -> A]
    BY <1>2
  <2> HIDE DEF g
  <2> QED BY <1>3, <2>1, FoldExists
<1>6. h = F(h)
  <2>1. ASSUME NEW S \in SUBSET DOMAIN names, S # {}
        PROVE  g[<<h[S \ {Max(S)}], names[Max(S)]>>] = Step(h[S \ {Max(S)}], names[Max(S)])
    <3>1. Max(S) \in DOMAIN names
      BY <1>1, <2>1, MaxOfPositions
    <3>2. h[S \ {Max(S)}] \in A /\ names[Max(S)] \in Channels
      BY <1>1, <1>5, <3>1 DEF Folds
    <3> QED BY <3>2
  <2> HIDE DEF g
  <2> QED BY <1>5, <2>1 DEF Folds
<1>7. c = F(c)
  <2> HIDE DEF F
  <2> QED BY <1>6
<1> HIDE DEF c
<1> DEFINE r == [k \in 0 .. n |-> c[1 .. k]]
<1>8. r[0] = b
  <2>1. 1 .. 0 = {} /\ 0 \in 0 .. n
    BY <1>1
  <2> QED BY <1>7, <2>1
<1>9. ASSUME NEW k \in 1 .. n PROVE r[k] = Step(r[k - 1], names[k])
  <2>1. /\ 1 .. k # {} /\ 1 .. k \in SUBSET (1 .. n)
        /\ Max(1 .. k) = k /\ (1 .. k) \ {k} = 1 .. (k - 1)
    BY <1>1, MaxOfUpTo
  <2>2. k \in 0 .. n /\ k - 1 \in 0 .. n
    BY <1>1
  <2>3. c[1 .. k] = Step(c[1 .. (k - 1)], names[k])
    BY <1>1, <1>7, <2>1
  <2> QED BY <2>2, <2>3
<1>10. Failing(Join, d, names, pl) = r[n]
  BY <1>1, <1>4
<1> HIDE DEF r
<1>11. \A k \in 0 .. n : r[k] \in A
  <2>1. \A k \in 1 .. n : r[k - 1] \in A => r[k] \in A
    BY <1>1, <1>2, <1>9
  <2> QED BY <1>1, <1>3, <1>8, <2>1, StaysIn
<1> QED BY <1>1, <1>10, <1>11 DEF A

LEMMA NewOnesGood ==
  ASSUME NEW d \in Good, NEW names \in Seq(Channels), NEW pl \in Objects,
         NEW info \in Texts \cup {Nil}
  PROVE  NewOnes(d, names, pl, info) \in Good
<1> DEFINE n == Len(names)
           A == Good
           b == d
           Step(a, x) == New(a, x, pl, info).d
           g == [y \in A \X Channels |-> Step(y[1], y[2])]
           F(h) == [S \in SUBSET DOMAIN names |->
                      IF S = {} THEN b ELSE Step(h[S \ {Max(S)}], names[Max(S)])]
           c == CHOOSE h : h = F(h)
<1>1. n \in Nat /\ DOMAIN names = 1 .. n /\ \A i \in 1 .. n : names[i] \in Channels
  BY LenProperties
<1>2. \A a \in A, x \in Channels : Step(a, x) \in A
  BY NewGood
<1>3. b \in A
  OBVIOUS
<1>4. NewOnes(d, names, pl, info) = c[DOMAIN names]
  BY DEF NewOnes, FoldLeft, MapThenFoldSet
<1> HIDE DEF A, b, Step, n
<1>5. PICK h : Folds(h, A, b, g, names)
  <2>1. g \in [A \X Channels -> A]
    BY <1>2
  <2> HIDE DEF g
  <2> QED BY <1>3, <2>1, FoldExists
<1>6. h = F(h)
  <2>1. ASSUME NEW S \in SUBSET DOMAIN names, S # {}
        PROVE  g[<<h[S \ {Max(S)}], names[Max(S)]>>] = Step(h[S \ {Max(S)}], names[Max(S)])
    <3>1. Max(S) \in DOMAIN names
      BY <1>1, <2>1, MaxOfPositions
    <3>2. h[S \ {Max(S)}] \in A /\ names[Max(S)] \in Channels
      BY <1>1, <1>5, <3>1 DEF Folds
    <3> QED BY <3>2
  <2> HIDE DEF g
  <2> QED BY <1>5, <2>1 DEF Folds
<1>7. c = F(c)
  <2> HIDE DEF F
  <2> QED BY <1>6
<1> HIDE DEF c
<1> DEFINE r == [k \in 0 .. n |-> c[1 .. k]]
<1>8. r[0] = b
  <2>1. 1 .. 0 = {} /\ 0 \in 0 .. n
    BY <1>1
  <2> QED BY <1>7, <2>1
<1>9. ASSUME NEW k \in 1 .. n PROVE r[k] = Step(r[k - 1], names[k])
  <2>1. /\ 1 .. k # {} /\ 1 .. k \in SUBSET (1 .. n)
        /\ Max(1 .. k) = k /\ (1 .. k) \ {k} = 1 .. (k - 1)
    BY <1>1, MaxOfUpTo
  <2>2. k \in 0 .. n /\ k - 1 \in 0 .. n
    BY <1>1
  <2>3. c[1 .. k] = Step(c[1 .. (k - 1)], names[k])
    BY <1>1, <1>7, <2>1
  <2> QED BY <2>2, <2>3
<1>10. NewOnes(d, names, pl, info) = r[n]
  BY <1>1, <1>4
<1> HIDE DEF r
<1>11. \A k \in 0 .. n : r[k] \in A
  <2>1. \A k \in 1 .. n : r[k - 1] \in A => r[k] \in A
    BY <1>1, <1>2, <1>9
  <2> QED BY <1>1, <1>3, <1>8, <2>1, StaysIn
<1> QED BY <1>1, <1>10, <1>11 DEF A

\* A player registers at the daemon.
LEMMA RegisterGood ==
  ASSUME NEW d \in Good, NEW names \in Seq(Channels), NEW pl \in Players
  PROVE  RegisterChannels(d, pl, names) \in Good
<1> DEFINE joined == Failing(Join, d, names, pl)
<1>1. pl \in Objects /\ Nil \in Texts \cup {Nil}
  BY Constants
<1>2. joined.d \in Good /\ joined.err \in Seq(Channels)
  BY <1>1, FailingJoinGood
<1>3. RegisterChannels(d, pl, names) =
        IF pl \in Grown THEN NewOnes(joined.d, joined.err, pl, Nil) ELSE joined.d
  BY DEF RegisterChannels
<1> HIDE DEF joined
<1> QED BY <1>1, <1>2, <1>3, NewOnesGood

\* All those who are on line register.
LEMMA RegisterAllGood ==
  ASSUME NEW d \in Good, NEW order \in Seq(Players), pls \in [Players -> Player]
  PROVE  RegisterAll(d, order) \in Good
<1> DEFINE n == Len(order)
           A == Good
           b == d
           Step(a, x) == RegisterChannels(a, x, pls[x].channels)
           g == [y \in A \X Players |-> Step(y[1], y[2])]
           F(h) == [S \in SUBSET DOMAIN order |->
                      IF S = {} THEN b ELSE Step(h[S \ {Max(S)}], order[Max(S)])]
           c == CHOOSE h : h = F(h)
<1>1. n \in Nat /\ DOMAIN order = 1 .. n /\ \A i \in 1 .. n : order[i] \in Players
  BY LenProperties
<1>2. \A a \in A, x \in Players : Step(a, x) \in A
  BY RegisterGood DEF Player
<1>3. b \in A
  OBVIOUS
<1>4. RegisterAll(d, order) = c[DOMAIN order]
  BY DEF RegisterAll, FoldLeft, MapThenFoldSet
<1> HIDE DEF A, b, Step, n
<1>5. PICK h : Folds(h, A, b, g, order)
  <2>1. g \in [A \X Players -> A]
    BY <1>2
  <2> HIDE DEF g
  <2> QED BY <1>3, <2>1, FoldExists
<1>6. h = F(h)
  <2>1. ASSUME NEW S \in SUBSET DOMAIN order, S # {}
        PROVE  g[<<h[S \ {Max(S)}], order[Max(S)]>>] = Step(h[S \ {Max(S)}], order[Max(S)])
    <3>1. Max(S) \in DOMAIN order
      BY <1>1, <2>1, MaxOfPositions
    <3>2. h[S \ {Max(S)}] \in A /\ order[Max(S)] \in Players
      BY <1>1, <1>5, <3>1 DEF Folds
    <3> QED BY <3>2
  <2> HIDE DEF g
  <2> QED BY <1>5, <2>1 DEF Folds
<1>7. c = F(c)
  <2> HIDE DEF F
  <2> QED BY <1>6
<1> HIDE DEF c
<1> DEFINE r == [k \in 0 .. n |-> c[1 .. k]]
<1>8. r[0] = b
  <2>1. 1 .. 0 = {} /\ 0 \in 0 .. n
    BY <1>1
  <2> QED BY <1>7, <2>1
<1>9. ASSUME NEW k \in 1 .. n PROVE r[k] = Step(r[k - 1], order[k])
  <2>1. /\ 1 .. k # {} /\ 1 .. k \in SUBSET (1 .. n)
        /\ Max(1 .. k) = k /\ (1 .. k) \ {k} = 1 .. (k - 1)
    BY <1>1, MaxOfUpTo
  <2>2. k \in 0 .. n /\ k - 1 \in 0 .. n
    BY <1>1
  <2>3. c[1 .. k] = Step(c[1 .. (k - 1)], order[k])
    BY <1>1, <1>7, <2>1
  <2> QED BY <2>2, <2>3
<1>10. RegisterAll(d, order) = r[n]
  BY <1>1, <1>4
<1> HIDE DEF r
<1>11. \A k \in 0 .. n : r[k] \in A
  <2>1. \A k \in 1 .. n : r[k - 1] \in A => r[k] \in A
    BY <1>1, <1>2, <1>9
  <2> QED BY <1>1, <1>3, <1>8, <2>1, StaysIn
<1> QED BY <1>1, <1>10, <1>11 DEF A

-----------------------------------------------------------------------------
(* What is done with all the channels.                                     *)

\* Every channel is changed or stays as it is, and none is founded.
LEMMA ChannelsSet ==
  ASSUME NEW d \in Good, NEW m \in [Channels -> Channel \cup {Nil}],
         \A c \in Channels : m[c] # Nil => Exists(d, c) /\ ChannelOK(m[c])
  PROVE  [d EXCEPT !.channels = m] \in Good
<1> DEFINE e == [d EXCEPT !.channels = m]
<1>1. e \in Daemon /\ e.channels = m /\ e.channelH = d.channelH
  BY DEF Good, Daemon
<1> HIDE DEF e
<1>2. \A c \in Channels : Exists(e, c) => ChannelOK(e.channels[c]) /\ e.channelH[c] # Nil
  BY <1>1 DEF Good, Exists
<1> QED BY <1>1, <1>2 DEF Good, e

LEMMA CleanedGood ==
  ASSUME NEW d \in Good
  PROVE  Cleaned(d) \in Good
<1> DEFINE m == [c \in Channels |-> IF Exists(d, c)
                   THEN [d.channels[c] EXCEPT !.member = Present(d.channels[c])] ELSE Nil]
<1>1. ASSUME NEW ch \in Channel, ChannelOK(ch)
      PROVE  /\ [ch EXCEPT !.member = Present(ch)] \in Channel
             /\ ChannelOK([ch EXCEPT !.member = Present(ch)])
  <2> DEFINE new == [ch EXCEPT !.member = Present(ch)]
  <2>1. Present(ch) \in Seq(Objects) /\ Present(ch) \in Seq(Objects \cup {Nil})
    BY PresentIs, SeqMonotonic
  <2>2. new \in Channel /\ new.member = Present(ch) /\ new.master = ch.master
    BY <2>1 DEF Channel
  <2>3. Present(new) = Present(ch)
    BY <2>1, <2>2, ThoseAll DEF Present
  <2> QED BY <1>1, <2>2, <2>3 DEF ChannelOK
<1>2. \A c \in Channels : Exists(d, c) => d.channels[c] \in Channel /\ ChannelOK(d.channels[c])
  BY DEF Good, Daemon, Exists
<1>3. m \in [Channels -> Channel \cup {Nil}]
  BY <1>1, <1>2
<1>4. \A c \in Channels : m[c] # Nil => Exists(d, c) /\ ChannelOK(m[c])
  BY <1>1, <1>2
<1>5. Cleaned(d) = [d EXCEPT !.channels = m]
  BY DEF Cleaned
<1> HIDE DEF m
<1> QED BY <1>3, <1>4, <1>5, ChannelsSet

\* One who is destructed stays in the list as a hole; if he was the master there
\* is none.
LEMMA DestructedOK ==
  ASSUME NEW ch \in Channel, ChannelOK(ch), NEW p \in Players
  PROVE  LET new == [ch EXCEPT !.member = ReplaceAll(@, p, Nil),
                               !.master = IF @ = p THEN Nil ELSE @]
         IN new \in Channel /\ ChannelOK(new)
<1> DEFINE s == ch.member
           t == ReplaceAll(s, p, Nil)
           master == IF ch.master = p THEN Nil ELSE ch.master
           new == [ch EXCEPT !.member = t, !.master = master]
           D == Objects \cup {Nil}
           W == Objects \ {p}
<1>1. s \in Seq(D) /\ master \in D
  BY DEF Channel
<1>2. t \in Seq(D) /\ Those(t, Objects) = Those(s, W)
  <2>1. Nil \notin Objects /\ W = Objects \ {p} /\ Nil \in D
    BY Constants
  <2> HIDE DEF s, D, W
  <2> QED BY <1>1, <2>1, ThoseReplaced
<1>3. Those(s, W) = Those(Present(ch), W)
  <2>1. Objects \cap W = W
    OBVIOUS
  <2>2. Those(Those(s, Objects), W) = Those(s, Objects \cap W)
    <3> HIDE DEF s, D, W
    <3> QED BY <1>1, ThoseOfThose
  <2> QED BY <2>1, <2>2 DEF Present
<1>4. new \in Channel /\ new.member = t /\ new.master = master
  <2> HIDE DEF t, master
  <2> QED BY <1>1, <1>2 DEF Channel
<1> DEFINE here == Present(ch)
<1>5. here \in Seq(Objects) /\ IsInjective(here)
  BY PresentIs DEF ChannelOK
<1>6. Present(new) = Those(here, W)
  BY <1>2, <1>3, <1>4 DEF Present
<1>7. IsInjective(Those(here, W))
  <2> HIDE DEF here, W
  <2> QED BY <1>5, ThoseOnce
<1>8. ASSUME master # Nil PROVE Those(here, W) # <<>> /\ Those(here, W)[1] = master
  <2>1. ch.master # p /\ master = ch.master /\ ch.master # Nil
    BY <1>8
  <2>2. here # <<>> /\ here[1] = master
    BY <2>1 DEF ChannelOK
  <2>3. here[1] \in W
    BY <1>1, <2>1, <2>2
  <2> HIDE DEF here, W
  <2> QED BY <1>5, <2>2, <2>3, ThoseFirst
<1> HIDE DEF new, here, master
<1>9. ChannelOK(new)
  BY <1>4, <1>6, <1>7, <1>8 DEF ChannelOK
<1> QED BY <1>4, <1>9 DEF new, master

LEMMA DestructedGood ==
  ASSUME NEW d \in Good, NEW p \in Players
  PROVE  Destructed(d, p) \in Good
<1> DEFINE New2(ch) == [ch EXCEPT !.member = ReplaceAll(@, p, Nil),
                                  !.master = IF @ = p THEN Nil ELSE @]
           m == [c \in Channels |-> IF ~Exists(d, c) THEN Nil ELSE New2(d.channels[c])]
<1>1. Destructed(d, p) = [d EXCEPT !.channels = m]
  BY DEF Destructed
<1>2. \A ch \in Channel : ChannelOK(ch) => New2(ch) \in Channel /\ ChannelOK(New2(ch))
  BY DestructedOK
<1> HIDE DEF New2
<1>3. \A c \in Channels : Exists(d, c) => d.channels[c] \in Channel /\ ChannelOK(d.channels[c])
  BY DEF Good, Daemon, Exists
<1>4. /\ m \in [Channels -> Channel \cup {Nil}]
      /\ \A c \in Channels : m[c] # Nil => Exists(d, c) /\ ChannelOK(m[c])
  BY <1>2, <1>3
<1> HIDE DEF m
<1> QED BY <1>1, <1>4, ChannelsSet

\* The daemon after create().
LEMMA CreatedGood ==
  ASSUME NEW memory \in History, NEW cc \in [Channels -> Texts \cup {Nil}]
  PROVE  Created(memory, cc) \in Good
<1> DEFINE d == [channels |-> [c \in Channels |-> Nil],
                 channelH |-> memory, memory |-> memory, shared |-> TRUE,
                 channelC |-> cc, save_me_soon |-> FALSE]
<1>1. d \in Good
  BY DEF Good, Daemon, Exists
<1>2. SetToSeq(Fixed) \in Seq(Channels)
  <2>1. Fixed \in SUBSET Channels /\ IsFiniteSet(Fixed)
    BY ChanneldAssumption, FS_Subset
  <2> QED BY <2>1, OrderOf
<1>3. Created(memory, cc) = NewOnes(d, SetToSeq(Fixed), CHMASTER, StdInfo)
  BY DEF Created
<1> HIDE DEF d
<1> QED BY <1>1, <1>2, <1>3, NewOnesGood, Constants, ChanneldAssumption

LEMMA RemoveGood ==
  ASSUME NEW d \in Good, NEW pl \in Players, NEW pr \in Player
  PROVE  RemoveChannels(d, pl, pr).d \in Good /\ RemoveChannels(d, pl, pr).pr \in Player
<1> DEFINE left == Failing(Leave, d, pr.channels, pl)
           V == Channels \ ToSet(left.err)
<1>1. CASE pr.c_status = 1
  BY <1>1 DEF RemoveChannels
<1>2. CASE pr.c_status # 1
  <2>1. pr.channels \in Seq(Channels) /\ pl \in Objects
    BY Constants DEF Player
  <2>2. left.d \in Good
    <3>1. PICK r : /\ left = r[Len(pr.channels)]
                   /\ \A k \in 0 .. Len(pr.channels) : r[k] \in [d : Good, err : Seq(Channels)]
      BY <2>1, FailingLeaveRun
    <3>2. Len(pr.channels) \in 0 .. Len(pr.channels)
      BY <2>1, LenProperties
    <3> HIDE DEF left
    <3> QED BY <3>1, <3>2
  <2>3. RemoveChannels(d, pl, pr) =
          [d |-> left.d, pr |-> [pr EXCEPT !.c_status = 1, !.channels = Those(@, V)]]
    BY <1>2 DEF RemoveChannels
  <2> HIDE DEF left, V
  <2>4. Those(pr.channels, V) \in Seq(Channels)
    <3>1. Those(pr.channels, V) \in Seq(Channels \cap V)
      BY <2>1, ThoseIn
    <3> QED BY <3>1, SeqMonotonic
  <2>5. [pr EXCEPT !.c_status = 1, !.channels = Those(@, V)] \in Player
    BY <2>4 DEF Player
  <2> QED BY <2>2, <2>3, <2>5
<1> QED BY <1>1, <1>2

-----------------------------------------------------------------------------
(* The inductive invariant.                                                *)

IInv ==
  /\ chd \in Good
  /\ disk \in [Channels -> Texts \cup {Nil}]
  /\ pls \in [Players -> Player]

\* The invariant says of every channel what the properties say.
LEMMA IInvImplies == IInv => ChannelsOK
<1> SUFFICES ASSUME IInv PROVE ChannelsOK
  OBVIOUS
<1>1. TypeOK
  BY DEF IInv, TypeOK, Good
<1>2. \A c \in Channels : Exists(chd, c) => ChannelOK(chd.channels[c]) /\ chd.channelH[c] # Nil
  BY DEF IInv, Good
<1>3. MasterLeads
  BY <1>2 DEF MasterLeads, ChannelOK, Living
<1>4. MembersOnce
  BY <1>2 DEF MembersOnce, ChannelOK, Living
<1>5. HistoryPresent
  BY <1>2 DEF HistoryPresent
<1> QED BY <1>1, <1>3, <1>4, <1>5 DEF ChannelsOK

LEMMA IInvInit == Init => IInv
<1> SUFFICES ASSUME Init PROVE IInv
  OBVIOUS
<1> DEFINE none == [c \in Channels |-> Nil]
<1>1. none \in History /\ none \in [Channels -> Texts \cup {Nil}]
  BY DEF History
<1>2. chd \in Good
  <2>1. chd = Created(none, none)
    BY DEF Init
  <2> HIDE DEF none
  <2> QED BY <1>1, <2>1, CreatedGood
<1>3. SetToSeq(Fixed) \in Seq(Channels)
  <2>1. Fixed \in SUBSET Channels /\ IsFiniteSet(Fixed)
    BY ChanneldAssumption, FS_Subset
  <2> QED BY <2>1, OrderOf
<1>4. pls \in [Players -> Player]
  BY <1>3 DEF Init, Player
<1> QED BY <1>1, <1>2, <1>4 DEF Init, IInv

\* A name is added to the list of a player, or names are taken off it.
LEMMA ListTyped ==
  ASSUME NEW s \in Seq(Channels), NEW c \in Channels, NEW V
  PROVE  Append(s, c) \in Seq(Channels) /\ Those(s, V) \in Seq(Channels)
<1>1. Those(s, V) \in Seq(Channels \cap V)
  BY ThoseIn
<1> QED BY <1>1, SeqMonotonic, AppendProperties

LEMMA ListsSet ==
  ASSUME NEW p \in Players, NEW s \in Seq(Channels), pls \in [Players -> Player]
  PROVE  [pls EXCEPT ![p].channels = s] \in [Players -> Player]
BY DEF Player

LEMMA OnInvariant ==
  ASSUME IInv, NEW p \in Players, NEW c \in Channels, ChannelOn(p, c)
  PROVE  IInv'
<1>1. chd' \in Good
  BY JoinGood, Constants DEF ChannelOn, IInv
<1>2. pls[p].channels \in Seq(Channels) /\ pls \in [Players -> Player]
  BY DEF IInv, Player
<1>3. Append(pls[p].channels, c) \in Seq(Channels)
  BY <1>2, ListTyped
<1>4. pls' \in [Players -> Player]
  BY <1>2, <1>3 DEF ChannelOn, Player
<1> QED BY <1>1, <1>4 DEF ChannelOn, IInv

LEMMA OffInvariant ==
  ASSUME IInv, NEW p \in Players, NEW c \in Channels, ChannelOff(p, c)
  PROVE  IInv'
<1>1. chd' \in Good
  BY LeaveGood, Constants DEF ChannelOff, IInv
<1>2. pls[p].channels \in Seq(Channels) /\ pls \in [Players -> Player]
  BY DEF IInv, Player
<1> DEFINE s == Those(pls[p].channels, Channels \ {c})
<1>3. s \in Seq(Channels)
  BY <1>2, ListTyped
<1>4. pls' \in {pls, [pls EXCEPT ![p].channels = s]}
  BY DEF ChannelOff
<1> HIDE DEF s
<1>5. pls' \in [Players -> Player]
  BY <1>2, <1>3, <1>4, ListsSet
<1> QED BY <1>1, <1>5 DEF ChannelOff, IInv

LEMMA SayInvariant ==
  ASSUME IInv, NEW p \in Players, NEW c \in Channels, Say(p, c)
  PROVE  IInv'
<1> DEFINE joined == IF Send(chd, c, p).ok THEN Denied(chd) ELSE Join(chd, c, p)
<1>1. joined.d \in Good
  BY JoinGood, Constants DEF IInv, Denied
<1>2. chd' = Send(joined.d, c, p).d
  BY DEF Say
<1>3. chd' \in Good
  <2> HIDE DEF joined
  <2> QED BY <1>1, <1>2, SendGood, Constants
<1>4. pls[p].channels \in Seq(Channels) /\ pls \in [Players -> Player]
  BY DEF IInv, Player
<1> DEFINE s == Append(pls[p].channels, c)
<1>5. s \in Seq(Channels)
  BY <1>4, ListTyped
<1>6. pls' \in {pls, [pls EXCEPT ![p].channels = s]}
  BY DEF Say
<1> HIDE DEF s
<1>7. pls' \in [Players -> Player]
  BY <1>4, <1>5, <1>6, ListsSet
<1> QED BY <1>3, <1>7 DEF Say, IInv

LEMMA NewInvariant ==
  ASSUME IInv, NEW p \in Players, NEW c \in Channels, NEW text \in Texts, NewChannel(p, c, text)
  PROVE  IInv'
<1>1. chd' \in Good
  BY NewGood, Constants DEF NewChannel, IInv
<1>2. pls[p].channels \in Seq(Channels) /\ pls \in [Players -> Player]
  BY DEF IInv, Player
<1> DEFINE s == Append(pls[p].channels, c)
<1>3. s \in Seq(Channels)
  BY <1>2, ListTyped
<1>4. pls' = [pls EXCEPT ![p].channels = s]
  BY DEF NewChannel
<1> HIDE DEF s
<1>5. pls' \in [Players -> Player]
  BY <1>2, <1>3, <1>4, ListsSet
<1> QED BY <1>1, <1>5 DEF NewChannel, IInv

LEMMA ListInvariant ==
  ASSUME IInv, NEW p \in Players, List(p)
  PROVE  IInv'
BY CleanedGood DEF List, IInv

LEMMA SwitchOnInvariant ==
  ASSUME IInv, NEW p \in Players, SwitchOn(p)
  PROVE  IInv'
<1> DEFINE all == {c \in Channels : Exists(chd, c)}
<1>1. PICK names \in IF pls[p].swap # Nil THEN {pls[p].swap} ELSE SetToSeqs(all) \ {<<>>} :
        /\ chd' = RegisterChannels(IF pls[p].swap # Nil THEN chd ELSE Cleaned(chd), p, names)
        /\ pls' = [pls EXCEPT ![p] = [@ EXCEPT !.channels = names, !.swap = Nil,
                                               !.c_status = 0]]
  BY DEF SwitchOn
<1>2. pls[p] \in Player /\ pls \in [Players -> Player]
  BY DEF IInv
<1>3. SetToSeqs(all) \subseteq Seq(Channels)
  <2>1. all \in SUBSET Channels /\ IsFiniteSet(all)
    BY ChanneldAssumption, FS_Subset
  <2> HIDE DEF all
  <2> QED BY <2>1, OrderOf
<1>4. names \in Seq(Channels)
  BY <1>1, <1>2, <1>3 DEF Player
<1>5. chd' \in Good
  <2>1. chd \in Good /\ Cleaned(chd) \in Good
    BY CleanedGood DEF IInv
  <2> QED BY <1>1, <1>4, <2>1, RegisterGood
<1>6. pls' \in [Players -> Player]
  <2>1. [pls[p] EXCEPT !.channels = names, !.swap = Nil, !.c_status = 0] \in Player
    BY <1>2, <1>4 DEF Player
  <2> QED BY <1>1, <1>2, <2>1
<1> QED BY <1>5, <1>6 DEF SwitchOn, IInv

LEMMA RemovedTyped ==
  ASSUME IInv, NEW p \in Players
  PROVE  /\ RemoveChannels(chd, p, pls[p]).d \in Good
         /\ RemoveChannels(chd, p, pls[p]).pr \in Player
BY RemoveGood DEF IInv

LEMMA SwitchOffInvariant ==
  ASSUME IInv, NEW p \in Players, SwitchOff(p)
  PROVE  IInv'
<1> DEFINE r == RemoveChannels(chd, p, pls[p])
<1>1. r.d \in Good /\ r.pr \in Player
  BY RemovedTyped
<1>2. pls[p] \in Player /\ pls \in [Players -> Player]
  BY DEF IInv
<1>3. /\ chd' = r.d /\ disk' = disk
      /\ pls' = [pls EXCEPT ![p] = [r.pr EXCEPT !.swap = pls[p].channels, !.channels = <<>>]]
  BY DEF SwitchOff
<1> HIDE DEF r
<1>4. [r.pr EXCEPT !.swap = pls[p].channels, !.channels = <<>>] \in Player
  <2> DEFINE s == pls[p].channels
             none == <<>>
  <2>1. s \in Seq(Channels) /\ none \in Seq(Channels)
    BY <1>2, EmptySeq DEF Player
  <2> HIDE DEF s, none
  <2>2. [r.pr EXCEPT !.swap = s, !.channels = none] \in Player
    BY <1>1, <2>1 DEF Player
  <2> QED BY <2>2 DEF s, none
<1>5. pls' \in [Players -> Player]
  BY <1>2, <1>3, <1>4
<1> QED BY <1>1, <1>3, <1>5 DEF IInv

LEMMA LoginInvariant ==
  ASSUME IInv, NEW p \in Players, Login(p)
  PROVE  IInv'
<1>1. pls[p] \in Player /\ pls \in [Players -> Player] /\ pls[p].channels \in Seq(Channels)
  BY DEF IInv, Player
<1>2. chd' \in Good
  BY <1>1, RegisterGood DEF Login, IInv
<1>3. pls' \in [Players -> Player]
  BY <1>1 DEF Login, Player
<1> QED BY <1>2, <1>3 DEF Login, IInv

LEMMA NetDeadInvariant ==
  ASSUME IInv, NEW p \in Players, NetDead(p)
  PROVE  IInv'
<1> DEFINE r == RemoveChannels(chd, p, pls[p])
<1>1. r.d \in Good /\ r.pr \in Player
  BY RemovedTyped
<1>2. /\ chd' = r.d /\ disk' = disk
      /\ pls' = [pls EXCEPT ![p] = [r.pr EXCEPT !.state = "netdead"]]
  BY DEF NetDead
<1> HIDE DEF r
<1>3. [r.pr EXCEPT !.state = "netdead"] \in Player
  BY <1>1 DEF Player
<1>4. pls' \in [Players -> Player]
  BY <1>2, <1>3 DEF IInv
<1> QED BY <1>1, <1>2, <1>4 DEF IInv

LEMMA QuitInvariant ==
  ASSUME IInv, NEW p \in Players, Quit(p)
  PROVE  IInv'
<1> DEFINE r == RemoveChannels(chd, p, pls[p])
<1>1. r.d \in Good /\ r.pr \in Player
  BY RemovedTyped
<1>2. /\ chd' = Destructed(r.d, p) /\ disk' = disk
      /\ pls' = [pls EXCEPT ![p] = [r.pr EXCEPT !.state = "off"]]
  BY DEF Quit
<1> HIDE DEF r
<1>3. [r.pr EXCEPT !.state = "off"] \in Player
  BY <1>1 DEF Player
<1>4. pls' \in [Players -> Player]
  BY <1>2, <1>3 DEF IInv
<1>5. chd' \in Good
  BY <1>1, <1>2, DestructedGood
<1> QED BY <1>2, <1>4, <1>5 DEF IInv

LEMMA KillInvariant ==
  ASSUME IInv, NEW c \in Channels, RemoveChannel(c)
  PROVE  IInv'
<1> DEFINE left == IF Exists(chd, c) THEN Disposed(chd, c) ELSE chd
           soon == chd.channelC[c] # Nil \/ chd.save_me_soon
           cc == [left.channelC EXCEPT ![c] = Nil]
           V == Channels \ {c}
<1>1. left \in Good
  BY DisposedGood DEF IInv
<1>2. chd' = [left EXCEPT !.channelC[c] = Nil, !.save_me_soon = soon]
  BY DEF RemoveChannel
<1>3. chd.save_me_soon \in BOOLEAN
  BY DEF IInv, Good, Daemon
<1>4. soon \in BOOLEAN
  BY <1>3
<1> HIDE DEF left, soon
<1>5. cc \in [Channels -> Texts \cup {Nil}] /\ left \in Daemon
  BY <1>1 DEF Good, Daemon
<1>6. chd' = [left EXCEPT !.channelC = cc, !.save_me_soon = soon]
  BY <1>2, <1>5 DEF Daemon
<1>7. chd' \in Good
  <2> HIDE DEF cc
  <2> QED BY <1>1, <1>4, <1>5, <1>6, CacheSet
<1>8. pls' \in [Players -> Player]
  <2>1. \A p \in Players : Those(pls[p].channels, V) \in Seq(Channels) /\ pls[p] \in Player
    BY ListTyped DEF IInv, Player
  <2>2. \E here : pls' = [p \in Players |->
          IF p \in here THEN [pls[p] EXCEPT !.channels = Those(@, V)] ELSE pls[p]]
    BY DEF RemoveChannel
  <2> HIDE DEF V
  <2>3. \A p \in Players : [pls[p] EXCEPT !.channels = Those(@, V)] \in Player
    BY <2>1 DEF Player
  <2> QED BY <2>1, <2>2, <2>3
<1> QED BY <1>7, <1>8 DEF RemoveChannel, IInv

LEMMA ClearInvariant ==
  ASSUME IInv, NEW c \in Channels, ClearHistory(c)
  PROVE  IInv'
BY SetHistoryGood, Constants DEF ClearHistory, IInv

LEMMA ResetInvariant ==
  ASSUME IInv, Reset
  PROVE  IInv'
<1>1. PICK old \in SUBSET Channels :
        LET kept == [c \in Channels |-> IF c \in old THEN Nil ELSE chd.channelC[c]]
        IN /\ chd' = [chd EXCEPT !.channelC = kept, !.save_me_soon = FALSE]
           /\ disk' = IF chd.save_me_soon THEN kept ELSE disk
  BY DEF Reset
<1> DEFINE kept == [c \in Channels |-> IF c \in old THEN Nil ELSE chd.channelC[c]]
<1>2. kept \in [Channels -> Texts \cup {Nil}]
  BY DEF IInv, Good, Daemon
<1>3. /\ chd' = [chd EXCEPT !.channelC = kept, !.save_me_soon = FALSE]
      /\ disk' \in {kept, disk}
  BY <1>1
<1> HIDE DEF kept
<1>4. chd' \in Good
  BY <1>2, <1>3, CacheSet DEF IInv
<1> QED BY <1>2, <1>3, <1>4 DEF Reset, IInv

LEMMA ReloadInvariant ==
  ASSUME IInv, Reload
  PROVE  IInv'
<1> DEFINE on == {p \in Players : On(p)}
<1>1. PICK order \in SetToSeqs(on) : chd' = RegisterAll(Created(chd.memory, disk), order)
  BY DEF Reload
<1>2. order \in Seq(Players)
  <2>1. on \in SUBSET Players /\ IsFiniteSet(on)
    BY ChanneldAssumption, FS_Subset
  <2> HIDE DEF on
  <2> QED BY <1>1, <2>1, OrderOf
<1>3. Created(chd.memory, disk) \in Good
  BY CreatedGood DEF IInv, Good, Daemon
<1>4. chd' \in Good
  BY <1>1, <1>2, <1>3, RegisterAllGood DEF IInv
<1>5. pls' \in [Players -> Player]
  BY DEF Reload, IInv, Player
<1> QED BY <1>4, <1>5 DEF Reload, IInv

\* Together.
LEMMA IInvNext == IInv /\ [Next]_vars => IInv'
<1> SUFFICES ASSUME IInv, [Next]_vars PROVE IInv'
  OBVIOUS
<1>1. CASE UNCHANGED vars
  BY <1>1 DEF IInv, vars
<1>2. ASSUME NEW p \in Players, NEW c \in Channels, NEW text \in Texts,
             \/ ChannelOn(p, c) \/ ChannelOff(p, c) \/ Say(p, c)
             \/ NewChannel(p, c, text) \/ Describe(p, c, text)
      PROVE  IInv'
  BY <1>2, OnInvariant, OffInvariant, SayInvariant, NewInvariant, ListInvariant DEF Describe
<1>3. ASSUME NEW p \in Players, \/ List(p) \/ SwitchOn(p) \/ SwitchOff(p)
                                \/ Login(p) \/ NetDead(p) \/ Quit(p)
      PROVE  IInv'
  BY <1>3, ListInvariant, SwitchOnInvariant, SwitchOffInvariant, LoginInvariant,
     NetDeadInvariant, QuitInvariant
<1>4. ASSUME NEW c \in Channels, RemoveChannel(c) \/ ClearHistory(c) PROVE IInv'
  BY <1>4, KillInvariant, ClearInvariant
<1>5. CASE Reset \/ Reload
  BY <1>5, ResetInvariant, ReloadInvariant
<1>6. StdInfo \in Texts
  BY ChanneldAssumption
<1> QED BY <1>1, <1>2, <1>3, <1>4, <1>5, <1>6 DEF Next

\* Every channel has a master only if he is the first of its members, nobody is a
\* member twice, and it has a history, through every command, login, logout and
\* reload of the daemon.
THEOREM ChanneldChannelsOK == Spec => []ChannelsOK
<1>1. Init => IInv
  BY IInvInit
<1>2. IInv /\ [Next]_vars => IInv'
  BY IInvNext
<1>3. IInv => ChannelsOK
  BY IInvImplies
<1> QED BY <1>1, <1>2, <1>3, PTL DEF Spec

-----------------------------------------------------------------------------
(* The list of a player who logs out.                                      *)

\* A channel the player is on, and which is only once on the list, is left
\* successfully when its turn comes: until then nobody has touched it.
LEMMA RemoveKeeps ==
  ASSUME NEW d \in Good, NEW pl \in Players, NEW pr \in Player,
         NEW i \in DOMAIN pr.channels, NEW c, c = pr.channels[i],
         Exists(d, c), Contains(d.channels[c].member, pl),
         \A j \in DOMAIN pr.channels \ {i} : pr.channels[j] # c
  PROVE  c \in ToSet(RemoveChannels(d, pl, pr).pr.channels)
<1> DEFINE names == pr.channels
           n == Len(names)
           left == Failing(Leave, d, names, pl)
           V == Channels \ ToSet(left.err)
<1>1. /\ names \in Seq(Channels) /\ pl \in Objects /\ n \in Nat /\ DOMAIN names = 1 .. n
      /\ c \in Channels /\ \A j \in 1 .. n : names[j] \in Channels
  BY Constants, LenProperties DEF Player
<1>2. CASE pr.c_status = 1
  BY <1>1, <1>2 DEF RemoveChannels, ToSet
<1>3. CASE pr.c_status # 1
  <2>1. PICK r :
      /\ r[0] = [d |-> d, err |-> <<>>] /\ left = r[n]
      /\ \A k \in 0 .. n : r[k] \in [d : Good, err : Seq(Channels)]
      /\ \A k \in 1 .. n :
           r[k] = [d   |-> Leave(r[k - 1].d, names[k], pl).d,
                   err |-> IF Leave(r[k - 1].d, names[k], pl).ok THEN r[k - 1].err
                           ELSE Append(r[k - 1].err, names[k])]
    BY <1>1, FailingLeaveRun
  <2> DEFINE Q == {k \in 0 .. n : /\ c \notin ToSet(r[k].err)
                                  /\ k < i => r[k].d.channels[c] = d.channels[c]}
  <2>2. 0 \in Q
    <3>1. ToSet(<<>>) = {}
      BY DEF ToSet
    <3> QED BY <1>1, <2>1, <3>1
  <2>3. ASSUME NEW k \in 1 .. n, k - 1 \in Q PROVE k \in Q
    <3> DEFINE e == r[k - 1].d
               err == r[k - 1].err
               x == names[k]
               u == Leave(e, x, pl)
    <3>1. e \in Good /\ err \in Seq(Channels) /\ x \in Channels /\ k - 1 \in 0 .. n /\ k \in 0 .. n
      BY <1>1, <2>1, <2>3
    <3>2. r[k] = [d |-> u.d, err |-> IF u.ok THEN err ELSE Append(err, x)]
      BY <2>1
    <3>3. c \notin ToSet(err) /\ (k - 1 < i => e.channels[c] = d.channels[c])
      BY <2>3
    <3> HIDE DEF e, err
    <3>4. /\ \A y \in Channels \ {x} : u.d.channels[y] = e.channels[y]
          /\ Exists(e, x) /\ Contains(e.channels[x].member, pl) => u.ok
      BY <1>1, <3>1, LeaveGood
    <3> HIDE DEF u, x
    <3>5. ToSet(Append(err, x)) = ToSet(err) \cup {x}
      BY <3>1, AppendHas
    <3>6. CASE k = i
      <4>1. x = c /\ e.channels[c] = d.channels[c]
        BY <1>1, <3>3, <3>6 DEF x
      <4>2. u.ok
        BY <3>4, <4>1 DEF Exists
      <4> QED BY <3>1, <3>2, <3>3, <3>6, <4>2
    <3>7. CASE k # i
      <4>1. x # c
        BY <1>1, <3>7 DEF x
      <4>2. c \notin ToSet(r[k].err)
        BY <3>2, <3>3, <3>5, <4>1
      <4>3. k < i => r[k].d.channels[c] = d.channels[c]
        <5>1. u.d.channels[c] = e.channels[c]
          BY <1>1, <3>4, <4>1
        <5>2. k < i => k - 1 < i
          BY <1>1
        <5> QED BY <3>2, <3>3, <5>1, <5>2
      <4> QED BY <3>1, <4>2, <4>3
    <3> QED BY <3>6, <3>7
  <2>4. c \notin ToSet(left.err)
    <3> HIDE DEF Q, left
    <3>1. \A k \in 0 .. n : k \in Q
      BY <1>1, <2>2, <2>3, Stepwise
    <3> QED BY <1>1, <2>1, <3>1 DEF Q
  <2>5. RemoveChannels(d, pl, pr).pr = [pr EXCEPT !.c_status = 1, !.channels = Those(@, V)]
    BY <1>3 DEF RemoveChannels
  <2>6. RemoveChannels(d, pl, pr).pr.channels = Those(names, V)
    <3> HIDE DEF V
    <3> QED BY <2>5 DEF Player
  <2>7. c \in V
    BY <1>1, <2>4
  <2>8. c \in ToSet(names)
    BY <1>1 DEF ToSet
  <2> HIDE DEF V, names
  <2>9. ToSet(Those(names, V)) = ToSet(names) \cap V
    BY <1>1, ThoseHas
  <2> QED BY <2>6, <2>7, <2>8, <2>9
<1> QED BY <1>2, <1>3

\* What a player is on when he logs out, or loses his connection, is on his list
\* at the next login.
THEOREM ChanneldListSurvives == Spec => ListSurvivesLogout
<1> DEFINE Keeps == \A p \in Players : NetDead(p) \/ Quit(p) =>
             \A i \in DOMAIN pls[p].channels :
               LET c == pls[p].channels[i] IN
               /\ Exists(chd, c) /\ Contains(chd.channels[c].member, p)
               /\ \A j \in DOMAIN pls[p].channels \ {i} : pls[p].channels[j] # c
               => c \in ToSet(pls'[p].channels)
<1>1. ASSUME IInv PROVE Keeps
  <2> SUFFICES ASSUME NEW p \in Players, NetDead(p) \/ Quit(p),
                      NEW i \in DOMAIN pls[p].channels, NEW c, c = pls[p].channels[i],
                      Exists(chd, c), Contains(chd.channels[c].member, p),
                      \A j \in DOMAIN pls[p].channels \ {i} : pls[p].channels[j] # c
               PROVE  c \in ToSet(pls'[p].channels)
    OBVIOUS
  <2> DEFINE r == RemoveChannels(chd, p, pls[p])
  <2>1. chd \in Good /\ pls[p] \in Player /\ pls \in [Players -> Player]
    BY <1>1 DEF IInv
  <2>2. c \in ToSet(r.pr.channels)
    BY <2>1, RemoveKeeps
  <2>3. r.pr \in Player
    BY <1>1, RemovedTyped
  <2>4. \E st : pls' = [pls EXCEPT ![p] = [r.pr EXCEPT !.state = st]]
    BY DEF NetDead, Quit
  <2> HIDE DEF r
  <2>5. pls'[p].channels = r.pr.channels
    BY <2>1, <2>3, <2>4 DEF Player
  <2> QED BY <2>2, <2>5
<1>2. Init => IInv
  BY IInvInit
<1>3. IInv /\ [Next]_vars => IInv'
  BY IInvNext
<1> HIDE DEF Keeps
<1>4. IInv /\ [Next]_vars => [Keeps]_vars
  BY <1>1
<1>5. Spec => [][Keeps]_vars
  BY <1>2, <1>3, <1>4, PTL DEF Spec
<1> QED BY <1>5 DEF ListSurvivesLogout, Keeps
=============================================================================
