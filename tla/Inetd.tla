-------------------------------- MODULE Inetd --------------------------------
(***************************************************************************)
(* The intermud daemon /secure/inetd.c: muds ask each other questions over *)
(* UDP.  A request gets an id and is pending until its reply comes or the  *)
(* last of its retries times out; packets that are too long travel in      *)
(* parts that the receiver buffers.                                        *)
(*                                                                         *)
(* net holds all packets ever sent: a packet is received once, several     *)
(* times, late or never, and a retry sends what is there already.  The     *)
(* call_outs run at any time: the muds' clocks and the delays of the       *)
(* network have nothing in common.  The list of hosts, their commands and  *)
(* addresses are left out, all muds know each other.                       *)
(***************************************************************************)
EXTENDS Naturals, Sequences

CONSTANTS
  Muds,          \* the muds, each running this daemon
  RETRIES,       \* how often a request is sent again
  Parts,         \* parts of a packet longer than MAX_PACKET_LEN
  Nil,           \* the LPC value 0
  MaxQuestions,  \* bound: questions asked by all muds
  MaxId,         \* bound: packet ids of a mud
  MaxReloads     \* bound: reloads of daemons

ASSUME InetdAssumption ==
  /\ RETRIES \in Nat /\ Parts \in Nat /\ Parts > 1
  /\ MaxQuestions \in Nat /\ MaxId \in Nat /\ MaxReloads \in Nat

VARIABLES
  packet_id,     \* the last id a mud has used
  pending_data,  \* requests waiting for a reply, by receiver and id
  timeouts,      \* the requests with a call_out of reply_time_out()
  received_ids,  \* requests received not long ago, by sender and id
  incoming,      \* incoming_packets: the buffered parts, by sender and id
  expiries,      \* the buffers with a call_out of remove_incoming()
  net,           \* the packets sent
  asked,         \* history: the number of questions asked
  told,          \* history: what the asker of a question was told
  lost,          \* history: questions forgotten with a reload
  fresh,         \* history: questions passed on as new ones by the mud asked
  reloads        \* history: the number of reloads

state   == <<packet_id, pending_data, timeouts, received_ids, incoming, expiries>>
history == <<asked, told, lost, fresh, reloads>>
vars    == <<state, net, history>>

Ids       == 1 .. MaxId
Keys      == Muds \X Ids            \* "mud:id"
Questions == 1 .. MaxQuestions
TIME_OUT  == 0                      \* what is told when no reply came

\* The data of a packet: the question it carries, or the one it answers.
Data == [REQUEST : {"request", "reply"}, ID : Ids, question : Questions]

\* A packet in one piece has neither an id of its own nor a number.
Packet ==
  [from : Muds, to : Muds, pkt : {0}, part : {0}, data : Data] \cup
  [from : Muds, to : Muds, pkt : Ids, part : 1 .. Parts, data : Data]

Pending == [RETRY : 0 .. RETRIES, question : Questions]
Buffer  == [1 .. Parts -> Data \cup {Nil}]

\* 0 is no mapping and no array.
ASSUME NilAssumption == Nil \notin Data \cup Pending \cup Buffer

Init ==
  /\ packet_id    = [m \in Muds |-> 0]
  /\ pending_data = [m \in Muds |-> [k \in Keys |-> Nil]]
  /\ timeouts     = [m \in Muds |-> {}]
  /\ received_ids = [m \in Muds |-> {}]
  /\ incoming     = [m \in Muds |-> [k \in Keys |-> Nil]]
  /\ expiries     = [m \in Muds |-> {}]
  /\ net = {}
  /\ asked = 0
  /\ told = [q \in Questions |-> <<>>]
  /\ lost = {}
  /\ fresh = [m \in Muds |-> {}]
  /\ reloads = 0

-----------------------------------------------------------------------------
(* Sending                                                                 *)

Whole(m, to, data)    == {[from |-> m, to |-> to, pkt |-> 0, part |-> 0, data |-> data]}
Split(m, to, id, data) ==
  {[from |-> m, to |-> to, pkt |-> id, part |-> i, data |-> data] : i \in 1 .. Parts}

Asked(m, to, id) ==
  LET data == [REQUEST |-> "request", ID |-> id, question |-> asked + 1]
  IN /\ m # to /\ asked < MaxQuestions
     /\ pending_data' = [pending_data EXCEPT ![m][<<to, id>>] =
                           [RETRY |-> 0, question |-> asked + 1]]
     /\ timeouts' = [timeouts EXCEPT ![m] = @ \cup {<<to, id>>}]
     /\ \E packets \in {Whole(m, to, data), Split(m, to, id, data)} :
          net' = net \cup packets
     /\ asked' = asked + 1
     /\ UNCHANGED <<received_ids, incoming, expiries, told, lost, fresh, reloads>>

\* Faulty variant: the id of a request that was answered is used again.
AskWithFreeId(m, to) ==
  \E id \in Ids :
    /\ pending_data[m][<<to, id>>] = Nil
    /\ Asked(m, to, id)
    /\ UNCHANGED packet_id

\* _send_udp() with expect_reply.  The parts of a request carry its id.
Ask(m, to) ==
  /\ packet_id[m] < MaxId
  /\ packet_id' = [packet_id EXCEPT ![m] = @ + 1]
  /\ Asked(m, to, packet_id[m] + 1)

\* Faulty variant: the parts of a reply carry the id of the request.
ReplyWithItsId(m, to, data) ==
  \/ net' = net \cup Whole(m, to, data) /\ UNCHANGED packet_id
  \/ net' = net \cup Split(m, to, data.ID, data) /\ UNCHANGED packet_id

\* _send_udp() of a reply: its parts need an id of the sender's own.
Reply(m, to, data) ==
  \/ net' = net \cup Whole(m, to, data) /\ UNCHANGED packet_id
  \/ /\ packet_id[m] < MaxId
     /\ packet_id' = [packet_id EXCEPT ![m] = @ + 1]
     /\ net' = net \cup Split(m, to, packet_id[m] + 1, data)

-----------------------------------------------------------------------------
(* Receiving                                                               *)

\* A module is called for the request; it answers, if at all, with the id and
\* the sender of the request.
TakeRequest(m, from, data) ==
  /\ received_ids' = [received_ids EXCEPT ![m] = @ \cup {<<from, data.ID>>}]
  /\ fresh' = IF <<from, data.ID>> \in received_ids[m] THEN fresh
                ELSE [fresh EXCEPT ![m] = @ \cup {data.question}]
  /\ \/ Reply(m, from, [data EXCEPT !.REQUEST = "reply"])
     \/ UNCHANGED <<net, packet_id>>
  /\ UNCHANGED <<pending_data, told>>

\* The asker is told the reply to a pending request; any other is thrown away.
TakeReply(m, from, data) ==
  LET key == <<from, data.ID>> IN
  /\ IF pending_data[m][key] = Nil
       THEN UNCHANGED <<pending_data, told>>
       ELSE /\ told' = [told EXCEPT ![pending_data[m][key].question] =
                          Append(@, data.question)]
            /\ pending_data' = [pending_data EXCEPT ![m][key] = Nil]
  /\ UNCHANGED <<packet_id, net, received_ids, fresh>>

Take(m, from, data) ==
  \/ data.REQUEST = "request" /\ TakeRequest(m, from, data)
  \/ data.REQUEST = "reply"   /\ TakeReply(m, from, data)

ReceiveWhole(m, p) ==
  /\ p \in net /\ p.to = m /\ p.part = 0
  /\ Take(m, p.from, p.data)
  /\ UNCHANGED <<timeouts, incoming, expiries, asked, lost, reloads>>

\* Parts of different packets do not make a packet that can be decoded.
Complete(buffer) == \A i \in 1 .. Parts : buffer[i] # Nil
Pure(buffer) ==
  \A i, j \in 1 .. Parts : buffer[i] # Nil /\ buffer[j] # Nil => buffer[i] = buffer[j]

\* The first part of a packet: the buffer expires, except that a pending
\* request of the same name is taken for one whose timeout does it as well.
ReceiveFirstPart(m, p) ==
  LET key == <<p.from, p.pkt>> IN
  /\ p \in net /\ p.to = m /\ p.part # 0
  /\ incoming[m][key] = Nil
  /\ incoming' = [incoming EXCEPT ![m][key] =
                    [i \in 1 .. Parts |-> IF i = p.part THEN p.data ELSE Nil]]
  /\ expiries' = IF pending_data[m][key] = Nil
                   THEN [expiries EXCEPT ![m] = @ \cup {key}] ELSE expiries
  /\ UNCHANGED <<packet_id, pending_data, timeouts, received_ids, net, history>>

ReceiveNextPart(m, p) ==
  LET key    == <<p.from, p.pkt>>
      buffer == [incoming[m][key] EXCEPT ![p.part] = p.data]
  IN /\ p \in net /\ p.to = m /\ p.part # 0
     /\ incoming[m][key] # Nil
     /\ incoming' = [incoming EXCEPT ![m][key] = IF Complete(buffer) THEN Nil ELSE buffer]
     /\ IF Complete(buffer) /\ Pure(buffer)
          THEN Take(m, p.from, p.data)
          ELSE UNCHANGED <<packet_id, pending_data, received_ids, net, told, fresh>>
     /\ UNCHANGED <<timeouts, expiries, asked, lost, reloads>>

-----------------------------------------------------------------------------
(* The call_outs and the reload                                            *)

\* Faulty variant: after the last retry the request stays pending.
TimeOutKeepsPending(m, key) ==
  LET request == pending_data[m][key] IN
  /\ key \in timeouts[m]
  /\ IF request # Nil /\ request.RETRY < RETRIES
       THEN /\ pending_data' = [pending_data EXCEPT ![m][key].RETRY = @ + 1]
            /\ UNCHANGED <<timeouts, told>>
       ELSE /\ timeouts' = [timeouts EXCEPT ![m] = @ \ {key}]
            /\ told' = IF request = Nil THEN told
                         ELSE [told EXCEPT ![request.question] = Append(@, TIME_OUT)]
            /\ UNCHANGED pending_data
  /\ UNCHANGED <<packet_id, received_ids, incoming, expiries, net, asked, lost, fresh, reloads>>

\* Faulty variant: one retry too many.
TimeOutLate(m, key) ==
  LET request == pending_data[m][key] IN
  /\ key \in timeouts[m]
  /\ IF request # Nil /\ request.RETRY <= RETRIES
       THEN /\ pending_data' = [pending_data EXCEPT ![m][key].RETRY = @ + 1]
            /\ UNCHANGED <<timeouts, told>>
       ELSE /\ timeouts' = [timeouts EXCEPT ![m] = @ \ {key}]
            /\ told' = IF request = Nil THEN told
                         ELSE [told EXCEPT ![request.question] = Append(@, TIME_OUT)]
            /\ pending_data' = [pending_data EXCEPT ![m][key] = Nil]
  /\ UNCHANGED <<packet_id, received_ids, incoming, expiries, net, asked, lost, fresh, reloads>>

\* Faulty variant: a retry is not timed again.
TimeOutOnce(m, key) ==
  LET request == pending_data[m][key] IN
  /\ key \in timeouts[m]
  /\ IF request # Nil /\ request.RETRY < RETRIES
       THEN /\ pending_data' = [pending_data EXCEPT ![m][key].RETRY = @ + 1]
            /\ UNCHANGED told
       ELSE /\ told' = IF request = Nil THEN told
                         ELSE [told EXCEPT ![request.question] = Append(@, TIME_OUT)]
            /\ pending_data' = [pending_data EXCEPT ![m][key] = Nil]
  /\ timeouts' = [timeouts EXCEPT ![m] = @ \ {key}]
  /\ UNCHANGED <<packet_id, received_ids, incoming, expiries, net, asked, lost, fresh, reloads>>

\* A request is sent again, or the asker is told that there is no answer.  The
\* buffer remove_incoming() is called for has the mud's name twice in its key:
\* there is no such buffer.
ReplyTimeOut(m, key) ==
  LET request == pending_data[m][key] IN
  /\ key \in timeouts[m]
  /\ IF request # Nil /\ request.RETRY < RETRIES
       THEN /\ pending_data' = [pending_data EXCEPT ![m][key].RETRY = @ + 1]
            /\ UNCHANGED <<timeouts, told>>
       ELSE /\ timeouts' = [timeouts EXCEPT ![m] = @ \ {key}]
            /\ told' = IF request = Nil THEN told
                         ELSE [told EXCEPT ![request.question] = Append(@, TIME_OUT)]
            /\ pending_data' = [pending_data EXCEPT ![m][key] = Nil]
  /\ UNCHANGED <<packet_id, received_ids, incoming, expiries, net, asked, lost, fresh, reloads>>

\* The call_out stays when there is a second one for the same buffer.
RemoveIncoming(m, key) ==
  /\ key \in expiries[m]
  /\ incoming' = [incoming EXCEPT ![m][key] = Nil]
  /\ expiries' \in {expiries, [expiries EXCEPT ![m] = @ \ {key}]}
  /\ UNCHANGED <<packet_id, pending_data, timeouts, received_ids, net, history>>

RemoveReceivedId(m, key) ==
  /\ key \in received_ids[m]
  /\ received_ids' = [received_ids EXCEPT ![m] = @ \ {key}]
  /\ UNCHANGED <<packet_id, pending_data, timeouts, incoming, expiries, net, history>>

\* All variables are nosave, the call_outs go with the object.
Reload(m) ==
  /\ reloads < MaxReloads
  /\ reloads' = reloads + 1
  /\ lost' = lost \cup {pending_data[m][k].question : k \in {l \in Keys : pending_data[m][l] # Nil}}
  /\ packet_id' = [packet_id EXCEPT ![m] = 0]
  /\ pending_data' = [pending_data EXCEPT ![m] = [k \in Keys |-> Nil]]
  /\ timeouts' = [timeouts EXCEPT ![m] = {}]
  /\ received_ids' = [received_ids EXCEPT ![m] = {}]
  /\ incoming' = [incoming EXCEPT ![m] = [k \in Keys |-> Nil]]
  /\ expiries' = [expiries EXCEPT ![m] = {}]
  /\ UNCHANGED <<net, asked, told, fresh>>

Next ==
  \E m \in Muds :
    \/ \E to \in Muds : Ask(m, to)
    \/ \E p \in net : ReceiveWhole(m, p) \/ ReceiveFirstPart(m, p) \/ ReceiveNextPart(m, p)
    \/ \E k \in Keys : ReplyTimeOut(m, k) \/ RemoveIncoming(m, k) \/ RemoveReceivedId(m, k)
    \/ Reload(m)

Spec == Init /\ [][Next]_vars

\* The driver runs every call_out; nothing is assumed of the network.
FairSpec == Spec /\ \A m \in Muds, k \in Keys : WF_vars(ReplyTimeOut(m, k))

-----------------------------------------------------------------------------
(* Properties                                                              *)

TypeOK ==
  /\ packet_id \in [Muds -> 0 .. MaxId]
  /\ pending_data \in [Muds -> [Keys -> Pending \cup {Nil}]]
  /\ timeouts \in [Muds -> SUBSET Keys]
  /\ received_ids \in [Muds -> SUBSET Keys]
  /\ incoming \in [Muds -> [Keys -> Buffer \cup {Nil}]]
  /\ expiries \in [Muds -> SUBSET Keys]
  /\ net \subseteq Packet
  /\ asked \in 0 .. MaxQuestions
  /\ told \in [Questions -> Seq(Questions \cup {TIME_OUT})]
  /\ lost \in SUBSET Questions
  /\ fresh \in [Muds -> SUBSET Questions]
  /\ reloads \in 0 .. MaxReloads

\* Every pending request has a call_out, so that none stays for ever.
PendingTimed == \A m \in Muds, k \in Keys : pending_data[m][k] # Nil => k \in timeouts[m]

\* The asker of a question is told once: a reply or that there is none, however
\* many packets are received twice, after the timeout or after a reload.
OneAnswer == \A q \in Questions : Len(told[q]) <= 1

\* As long as no daemon was reloaded, a reply is told to the one who asked.
AnswerMatches ==
  reloads = 0 => \A q \in Questions : \A i \in DOMAIN told[q] : told[q][i] \in {q, TIME_OUT}

\* The parts that may still arrive belong to the packet the buffer holds.
PartsFit ==
  \A p \in net : p.part # 0 =>
    LET buffer == incoming[p.to][<<p.from, p.pkt>>]
    IN buffer # Nil => \A i \in 1 .. Parts : buffer[i] \in {Nil, p.data}

\* As long as no daemon was reloaded, only parts of one packet are ever put
\* together, requests, retries and replies all being split with ids of one
\* counter.
OnePacketPerBuffer == reloads = 0 => PartsFit

\* As long as no daemon was reloaded, a request is marked REPEAT only if the
\* module has seen it before.
RepeatIsRepeat ==
  [][reloads = 0 =>
       \A m \in Muds : \A p \in net :
         /\ p.data.REQUEST = "request" /\ p.to = m
         /\ <<p.from, p.data.ID>> \in received_ids[m]
         => p.data.question \in fresh[m]]_vars

\* Every question is answered, declared unanswerable, or lost with a reload,
\* even if no packet ever arrives.
EveryQuestionSettles == \A q \in Questions : (asked >= q) ~> (told[q] # <<>> \/ q \in lost)
=============================================================================
