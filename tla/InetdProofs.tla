----------------------------- MODULE InetdProofs -----------------------------
(***************************************************************************)
(* Theorems about the intermud daemon, for any number of muds, parts,      *)
(* retries, questions, ids and reloads.                                    *)
(***************************************************************************)
EXTENDS Inetd, TLAPS

-----------------------------------------------------------------------------
(* Types                                                                   *)

LEMMA SplitType ==
  ASSUME NEW m \in Muds, NEW to \in Muds, NEW id \in Ids, NEW data \in Data
  PROVE  /\ Whole(m, to, data) \subseteq Packet
         /\ Split(m, to, id, data) \subseteq Packet
BY InetdAssumption DEF Whole, Split, Packet, Ids

\* What a packet says is read by Take(), whether it came in one piece or not.
LEMMA TakeType ==
  ASSUME TypeOK, NEW m \in Muds, NEW from \in Muds, NEW data \in Data,
         Take(m, from, data)
  PROVE  /\ packet_id' \in [Muds -> 0 .. MaxId]
         /\ pending_data' \in [Muds -> [Keys -> Pending \cup {Nil}]]
         /\ received_ids' \in [Muds -> SUBSET Keys]
         /\ net' \subseteq Packet
         /\ told' \in [Questions -> Seq(Questions \cup {TIME_OUT})]
         /\ fresh' \in [Muds -> SUBSET Questions]
<1> DEFINE key == <<from, data.ID>>
           reply == [data EXCEPT !.REQUEST = "reply"]
<1>1. key \in Keys /\ data.ID \in Ids /\ data.question \in Questions
  BY DEF Data, Keys
<1>2. reply \in Data
  BY DEF Data
<1>3. CASE data.REQUEST = "request" /\ TakeRequest(m, from, data)
  <2>1. packet_id' \in [Muds -> 0 .. MaxId] /\ net' \subseteq Packet
    <3>1. CASE net' = net \cup Whole(m, from, reply) /\ UNCHANGED packet_id
      BY <3>1, <1>2, <1>1, SplitType DEF TypeOK
    <3>2. CASE /\ packet_id[m] < MaxId
               /\ packet_id' = [packet_id EXCEPT ![m] = @ + 1]
               /\ net' = net \cup Split(m, from, packet_id[m] + 1, reply)
      <4>1. packet_id[m] \in 0 .. MaxId
        BY DEF TypeOK
      <4>2. packet_id[m] + 1 \in Ids /\ packet_id[m] + 1 \in 0 .. MaxId
        BY <4>1, <3>2, InetdAssumption DEF Ids
      <4>3. Split(m, from, packet_id[m] + 1, reply) \subseteq Packet
        BY <4>2, <1>2, SplitType
      <4> QED BY <3>2, <4>2, <4>3 DEF TypeOK
    <3>3. CASE UNCHANGED <<net, packet_id>>
      BY <3>3 DEF TypeOK
    <3> QED BY <1>3, <3>1, <3>2, <3>3 DEF TakeRequest, Reply
  <2>2. received_ids' \in [Muds -> SUBSET Keys]
    BY <1>3, <1>1 DEF TakeRequest, TypeOK
  <2>3. fresh' \in [Muds -> SUBSET Questions]
    BY <1>3, <1>1 DEF TakeRequest, TypeOK
  <2>4. UNCHANGED <<pending_data, told>>
    BY <1>3 DEF TakeRequest
  <2> QED BY <2>1, <2>2, <2>3, <2>4 DEF TypeOK
<1>4. CASE data.REQUEST = "reply" /\ TakeReply(m, from, data)
  <2>1. UNCHANGED <<packet_id, net, received_ids, fresh>>
    BY <1>4 DEF TakeReply
  <2>2. CASE pending_data[m][key] = Nil
    BY <2>1, <2>2, <1>4 DEF TakeReply, TypeOK
  <2>3. CASE pending_data[m][key] # Nil
    <3>1. pending_data[m][key] \in Pending
      BY <2>3, <1>1 DEF TypeOK
    <3>2. pending_data[m][key].question \in Questions
      BY <3>1 DEF Pending
    <3>3. pending_data' \in [Muds -> [Keys -> Pending \cup {Nil}]]
      <4>1. pending_data' = [pending_data EXCEPT ![m][key] = Nil]
        BY <2>3, <1>4 DEF TakeReply
      <4> HIDE DEF key
      <4> QED BY <4>1, <1>1 DEF TypeOK
    <3>4. told' \in [Questions -> Seq(Questions \cup {TIME_OUT})]
      <4>1. told' = [told EXCEPT ![pending_data[m][key].question] =
                       Append(@, data.question)]
        BY <2>3, <1>4 DEF TakeReply
      <4>2. Append(told[pending_data[m][key].question], data.question)
              \in Seq(Questions \cup {TIME_OUT})
        BY <3>2, <1>1 DEF TypeOK
      <4> QED BY <4>1, <4>2, <3>2 DEF TypeOK
    <3> QED BY <2>1, <3>3, <3>4 DEF TypeOK
  <2> QED BY <2>2, <2>3
<1> QED BY <1>3, <1>4 DEF Take

LEMMA TypeInit == Init => TypeOK
BY InetdAssumption DEF Init, TypeOK, Buffer

LEMMA TypeStep == TypeOK /\ [Next]_vars => TypeOK'
<1> SUFFICES ASSUME TypeOK, [Next]_vars PROVE TypeOK'
  OBVIOUS
<1>1. CASE UNCHANGED vars
  BY <1>1 DEF TypeOK, vars, state, history
<1>2. ASSUME NEW m \in Muds, NEW to \in Muds, Ask(m, to) PROVE TypeOK'
  <2> DEFINE id   == packet_id[m] + 1
             data == [REQUEST |-> "request", ID |-> id, question |-> asked + 1]
  <2>1. packet_id[m] \in 0 .. MaxId /\ packet_id[m] < MaxId
    BY <1>2 DEF Ask, TypeOK
  <2>2. id \in Ids /\ id \in 0 .. MaxId
    BY <2>1, InetdAssumption DEF Ids
  <2>3. asked \in 0 .. MaxQuestions /\ asked < MaxQuestions
    BY <1>2 DEF Ask, Asked, TypeOK
  <2>4. asked + 1 \in Questions /\ asked + 1 \in 0 .. MaxQuestions
    BY <2>3, InetdAssumption DEF Questions
  <2>5. data \in Data
    BY <2>2, <2>4 DEF Data
  <2>6. <<to, id>> \in Keys
    BY <2>2 DEF Keys
  <2>7. [RETRY |-> 0, question |-> asked + 1] \in Pending
    BY <2>4, InetdAssumption DEF Pending
  <2>8. pending_data' = [pending_data EXCEPT ![m][<<to, id>>] =
                           [RETRY |-> 0, question |-> asked + 1]]
    BY <1>2 DEF Ask, Asked
  <2>9. pending_data' \in [Muds -> [Keys -> Pending \cup {Nil}]]
    BY <2>6, <2>7, <2>8 DEF TypeOK
  <2>10. timeouts' \in [Muds -> SUBSET Keys]
    BY <1>2, <2>6 DEF Ask, Asked, TypeOK
  <2>11. net' \subseteq Packet
    BY <1>2, <2>2, <2>5, SplitType DEF Ask, Asked, TypeOK
  <2>12. packet_id' \in [Muds -> 0 .. MaxId] /\ asked' \in 0 .. MaxQuestions
    BY <1>2, <2>2, <2>4 DEF Ask, Asked, TypeOK
  <2> QED BY <1>2, <2>9, <2>10, <2>11, <2>12 DEF Ask, Asked, TypeOK
<1>3. ASSUME NEW m \in Muds, NEW p \in net, ReceiveWhole(m, p) PROVE TypeOK'
  <2>1. p.from \in Muds /\ p.data \in Data
    BY <1>3 DEF TypeOK, Packet
  <2>2. Take(m, p.from, p.data)
    BY <1>3 DEF ReceiveWhole
  <2>3. UNCHANGED <<timeouts, incoming, expiries, asked, lost, reloads>>
    BY <1>3 DEF ReceiveWhole
  <2> HIDE DEF Take
  <2> QED BY <2>1, <2>2, <2>3, TakeType DEF TypeOK
<1>4. ASSUME NEW m \in Muds, NEW p \in net, ReceiveFirstPart(m, p) PROVE TypeOK'
  <2> DEFINE key == <<p.from, p.pkt>>
             buffer == [i \in 1 .. Parts |-> IF i = p.part THEN p.data ELSE Nil]
  <2>1. p \in Packet /\ p.part # 0
    BY <1>4 DEF TypeOK, ReceiveFirstPart
  <2>2. buffer \in Buffer
    BY <2>1 DEF Packet, Buffer
  <2>3. incoming' = [incoming EXCEPT ![m][key] = buffer]
    BY <1>4 DEF ReceiveFirstPart
  <2>4. incoming' \in [Muds -> [Keys -> Buffer \cup {Nil}]]
    BY <2>2, <2>3 DEF TypeOK
  <2>5. key \in Keys
    BY <2>1, InetdAssumption DEF Keys, Packet
  <2>6. expiries' \in [Muds -> SUBSET Keys]
    BY <2>5, <1>4 DEF ReceiveFirstPart, TypeOK
  <2> QED BY <1>4, <2>4, <2>6 DEF ReceiveFirstPart, TypeOK, history
<1>5. ASSUME NEW m \in Muds, NEW p \in net, ReceiveNextPart(m, p) PROVE TypeOK'
  <2> DEFINE key == <<p.from, p.pkt>>
             buffer == [incoming[m][key] EXCEPT ![p.part] = p.data]
  <2>1. p \in Packet /\ p.part # 0 /\ incoming[m][key] # Nil
    BY <1>5 DEF TypeOK, ReceiveNextPart
  <2>2. p.from \in Muds /\ p.data \in Data /\ key \in Keys /\ p.part \in 1 .. Parts
    BY <2>1, InetdAssumption DEF Packet, Keys
  <2>3. incoming[m][key] \in Buffer
    BY <2>1, <2>2 DEF TypeOK
  <2>4. buffer \in Buffer
    BY <2>2, <2>3 DEF Buffer
  <2>5. incoming' = [incoming EXCEPT ![m][key] =
                       IF Complete(buffer) THEN Nil ELSE buffer]
    BY <1>5 DEF ReceiveNextPart
  <2>6. incoming' \in [Muds -> [Keys -> Buffer \cup {Nil}]]
    <3> HIDE DEF key, buffer
    <3> QED BY <2>2, <2>4, <2>5 DEF TypeOK
  <2>7. \/ Take(m, p.from, p.data)
        \/ UNCHANGED <<packet_id, pending_data, received_ids, net, told, fresh>>
    BY <1>5 DEF ReceiveNextPart
  <2>8. UNCHANGED <<timeouts, expiries, asked, lost, reloads>>
    BY <1>5 DEF ReceiveNextPart
  <2> HIDE DEF Take, key, buffer
  <2> QED BY <2>2, <2>6, <2>7, <2>8, TakeType DEF TypeOK
<1>6. ASSUME NEW m \in Muds, NEW k \in Keys, ReplyTimeOut(m, k) PROVE TypeOK'
  <2>1. CASE pending_data[m][k] # Nil /\ pending_data[m][k].RETRY < RETRIES
    <3>1. pending_data[m][k] \in Pending
      BY <2>1 DEF TypeOK
    <3>2. [pending_data[m][k] EXCEPT !.RETRY = @ + 1] \in Pending
      BY <3>1, <2>1, InetdAssumption DEF Pending
    <3>3. pending_data' = [pending_data EXCEPT ![m][k].RETRY = @ + 1]
      BY <2>1, <1>6 DEF ReplyTimeOut
    <3>4. pending_data' \in [Muds -> [Keys -> Pending \cup {Nil}]]
      BY <3>2, <3>3 DEF TypeOK
    <3> QED BY <2>1, <3>4, <1>6 DEF ReplyTimeOut, TypeOK
  <2>2. CASE ~(pending_data[m][k] # Nil /\ pending_data[m][k].RETRY < RETRIES)
    <3>1. pending_data' = [pending_data EXCEPT ![m][k] = Nil]
      BY <2>2, <1>6 DEF ReplyTimeOut
    <3>2. pending_data' \in [Muds -> [Keys -> Pending \cup {Nil}]]
      BY <3>1 DEF TypeOK
    <3>3. told' \in [Questions -> Seq(Questions \cup {TIME_OUT})]
      <4>1. CASE pending_data[m][k] = Nil
        BY <4>1, <2>2, <1>6 DEF ReplyTimeOut, TypeOK
      <4>2. CASE pending_data[m][k] # Nil
        <5> DEFINE q == pending_data[m][k].question
        <5>1. q \in Questions
          BY <4>2 DEF TypeOK, Pending
        <5>2. told' = [told EXCEPT ![q] = Append(@, TIME_OUT)]
          BY <4>2, <2>2, <1>6 DEF ReplyTimeOut
        <5>3. Append(told[q], TIME_OUT) \in Seq(Questions \cup {TIME_OUT})
          BY <5>1 DEF TypeOK
        <5> HIDE DEF q
        <5> QED BY <5>1, <5>2, <5>3 DEF TypeOK
      <4> QED BY <4>1, <4>2
    <3>4. timeouts' \in [Muds -> SUBSET Keys]
      BY <2>2, <1>6 DEF ReplyTimeOut, TypeOK
    <3> QED BY <1>6, <3>2, <3>3, <3>4 DEF ReplyTimeOut, TypeOK
  <2> QED BY <2>1, <2>2
<1>7. ASSUME NEW m \in Muds, NEW k \in Keys, RemoveIncoming(m, k) PROVE TypeOK'
  BY <1>7 DEF RemoveIncoming, TypeOK, history
<1>8. ASSUME NEW m \in Muds, NEW k \in Keys, RemoveReceivedId(m, k) PROVE TypeOK'
  BY <1>8 DEF RemoveReceivedId, TypeOK, history
<1>9. ASSUME NEW m \in Muds, Reload(m) PROVE TypeOK'
  <2>1. lost' \in SUBSET Questions
    <3>1. \A k \in Keys : pending_data[m][k] # Nil => pending_data[m][k].question \in Questions
      BY DEF TypeOK, Pending
    <3> QED BY <3>1, <1>9 DEF Reload, TypeOK
  <2>2. reloads' \in 0 .. MaxReloads
    BY <1>9, InetdAssumption DEF Reload, TypeOK
  <2>3. packet_id' \in [Muds -> 0 .. MaxId]
    BY <1>9, InetdAssumption DEF Reload, TypeOK
  <2> QED BY <1>9, <2>1, <2>2, <2>3 DEF Reload, TypeOK
<1> QED
  BY <1>1, <1>2, <1>3, <1>4, <1>5, <1>6, <1>7, <1>8, <1>9 DEF Next

\* The types of the daemon's state.
THEOREM TypeCorrect == Spec => []TypeOK
BY TypeInit, TypeStep, PTL DEF Spec

-----------------------------------------------------------------------------
(* One answer.  A question is pending at most once, and only as long as    *)
(* nothing was told about it; new questions are new.                       *)

Unanswered ==
  \A m \in Muds, k \in Keys : pending_data[m][k] # Nil =>
    /\ pending_data[m][k].question <= asked
    /\ told[pending_data[m][k].question] = <<>>

PendingOnce ==
  \A m, n \in Muds : \A k, l \in Keys :
    /\ pending_data[m][k] # Nil /\ pending_data[n][l] # Nil
    /\ pending_data[m][k].question = pending_data[n][l].question
    => m = n /\ k = l

NothingToldYet == \A q \in Questions : q > asked => told[q] = <<>>

AInv == /\ Unanswered
        /\ PendingOnce
        /\ NothingToldYet
        /\ PendingTimed
        /\ OneAnswer

\* One pending request is closed, and its asker told once.
LEMMA CloseAnswers ==
  ASSUME TypeOK, AInv, NEW m \in Muds, NEW k \in Keys, pending_data[m][k] # Nil,
         NEW a \in Questions \cup {TIME_OUT},
         told' = [told EXCEPT ![pending_data[m][k].question] = Append(@, a)],
         pending_data' = [pending_data EXCEPT ![m][k] = Nil],
         UNCHANGED asked
  PROVE  /\ Unanswered' /\ PendingOnce' /\ NothingToldYet' /\ OneAnswer'
         /\ \A n \in Muds, l \in Keys :
              pending_data'[n][l] # Nil => pending_data[n][l] # Nil
<1> DEFINE q == pending_data[m][k].question
<1>1. q \in Questions /\ told[q] = <<>> /\ q <= asked
  BY DEF TypeOK, Pending, AInv, Unanswered
<1>2. pending_data'[m][k] = Nil
  BY DEF TypeOK
<1>3. \A n \in Muds, l \in Keys :
        pending_data'[n][l] # Nil =>
          pending_data'[n][l] = pending_data[n][l] /\ <<n, l>> # <<m, k>>
  BY <1>2 DEF TypeOK
<1>4. \A n \in Muds, l \in Keys :
        pending_data'[n][l] # Nil => pending_data[n][l].question # q
  BY <1>3 DEF AInv, PendingOnce
<1>5. \A n \in Muds, l \in Keys :
        pending_data'[n][l] # Nil => pending_data[n][l].question \in Questions
  BY <1>3 DEF TypeOK, Pending
<1>6. \A r \in Questions : r # q => told'[r] = told[r]
  BY DEF TypeOK
<1>7. told'[q] = Append(<<>>, a)
  BY <1>1 DEF TypeOK
<1>8. Unanswered'
  BY <1>3, <1>4, <1>5, <1>6 DEF AInv, Unanswered
<1>9. PendingOnce'
  BY <1>3 DEF AInv, PendingOnce
<1>10. NothingToldYet'
  <2> SUFFICES ASSUME NEW r \in Questions, r > asked PROVE told'[r] = <<>>
    BY DEF NothingToldYet
  <2>1. r # q
    BY <1>1, InetdAssumption DEF TypeOK, Questions
  <2> QED BY <2>1, <1>6 DEF AInv, NothingToldYet
<1>11. OneAnswer'
  <2>1. \A s : s = Append(<<>>, a) => Len(s) <= 1
    OBVIOUS
  <2>2. Len(told'[q]) <= 1
    <3> HIDE DEF q
    <3> QED BY <2>1, <1>7
  <2> QED BY <2>2, <1>6 DEF AInv, OneAnswer
<1> QED BY <1>3, <1>8, <1>9, <1>10, <1>11

\* A step that opens and tells nothing.
LEMMA QuietAnswers ==
  ASSUME TypeOK, AInv, UNCHANGED <<told, asked>>,
         \A m \in Muds, k \in Keys : pending_data'[m][k] # Nil =>
           /\ pending_data[m][k] # Nil
           /\ pending_data'[m][k].question = pending_data[m][k].question
           /\ k \in timeouts'[m]
  PROVE  AInv'
<1>1. Unanswered' /\ PendingOnce' /\ PendingTimed'
  BY DEF AInv, Unanswered, PendingOnce, PendingTimed
<1>2. NothingToldYet' /\ OneAnswer'
  BY DEF AInv, NothingToldYet, OneAnswer
<1> QED BY <1>1, <1>2 DEF AInv

LEMMA TakeAnswers ==
  ASSUME TypeOK, AInv, NEW m \in Muds, NEW from \in Muds, NEW data \in Data,
         Take(m, from, data), UNCHANGED <<timeouts, asked>>
  PROVE  AInv'
<1> DEFINE key == <<from, data.ID>>
<1>1. CASE TakeRequest(m, from, data)
  <2>1. UNCHANGED <<pending_data, told>>
    BY <1>1 DEF TakeRequest
  <2> QED BY <2>1, QuietAnswers DEF AInv, PendingTimed
<1>2. CASE TakeReply(m, from, data) /\ pending_data[m][key] = Nil
  <2>1. UNCHANGED <<pending_data, told>>
    BY <1>2 DEF TakeReply
  <2> QED BY <2>1, QuietAnswers DEF AInv, PendingTimed
<1>3. CASE TakeReply(m, from, data) /\ pending_data[m][key] # Nil
  <2>1. key \in Keys /\ data.question \in Questions
    BY DEF Data, Keys
  <2>2. told' = [told EXCEPT ![pending_data[m][key].question] = Append(@, data.question)]
    BY <1>3 DEF TakeReply
  <2>3. pending_data' = [pending_data EXCEPT ![m][key] = Nil]
    BY <1>3 DEF TakeReply
  <2> HIDE DEF key
  <2>4. /\ Unanswered' /\ PendingOnce' /\ NothingToldYet' /\ OneAnswer'
        /\ \A n \in Muds, l \in Keys :
             pending_data'[n][l] # Nil => pending_data[n][l] # Nil
    BY <1>3, <2>1, <2>2, <2>3, CloseAnswers
  <2>5. PendingTimed'
    BY <2>4 DEF AInv, PendingTimed
  <2> QED BY <2>4, <2>5 DEF AInv
<1> QED BY <1>1, <1>2, <1>3 DEF Take

LEMMA AnswerInit == Init => AInv
BY InetdAssumption
DEF Init, AInv, Unanswered, PendingOnce, NothingToldYet, PendingTimed, OneAnswer

LEMMA AnswerStep == TypeOK /\ AInv /\ [Next]_vars => AInv'
<1> SUFFICES ASSUME TypeOK, AInv, [Next]_vars PROVE AInv'
  OBVIOUS
<1>1. CASE UNCHANGED vars
  BY <1>1, QuietAnswers DEF vars, state, history, AInv, PendingTimed
<1>2. ASSUME NEW m \in Muds, NEW to \in Muds, Ask(m, to) PROVE AInv'
  <2> DEFINE key == <<to, packet_id[m] + 1>>
             request == [RETRY |-> 0, question |-> asked + 1]
  <2>1. key \in Keys
    BY <1>2, InetdAssumption DEF Ask, TypeOK, Keys, Ids
  <2>2. pending_data' = [pending_data EXCEPT ![m][key] = request]
    BY <1>2 DEF Ask, Asked
  <2>3. /\ asked' = asked + 1 /\ told' = told
        /\ timeouts' = [timeouts EXCEPT ![m] = @ \cup {key}]
    BY <1>2 DEF Ask, Asked
  <2>4. asked \in Nat /\ asked + 1 \in Questions
    BY <1>2, InetdAssumption DEF Ask, Asked, TypeOK, Questions
  <2>5. told[asked + 1] = <<>>
    BY <2>4 DEF AInv, NothingToldYet
  <2> HIDE DEF key
  <2>6. pending_data'[m][key] = request
    BY <2>1, <2>2 DEF TypeOK
  <2>7. \A n \in Muds, l \in Keys : <<n, l>> # <<m, key>> =>
          pending_data'[n][l] = pending_data[n][l]
    BY <2>1, <2>2 DEF TypeOK
  <2>8. \A n \in Muds, l \in Keys : pending_data[n][l] # Nil =>
          /\ pending_data[n][l].question \in Questions
          /\ pending_data[n][l].question <= asked
          /\ pending_data[n][l].question # asked + 1
    BY <2>4 DEF TypeOK, Pending, AInv, Unanswered, Questions
  <2>9. Unanswered'
    <3> SUFFICES ASSUME NEW n \in Muds, NEW l \in Keys, pending_data'[n][l] # Nil
                 PROVE  /\ pending_data'[n][l].question <= asked + 1
                        /\ told[pending_data'[n][l].question] = <<>>
      BY <2>3 DEF Unanswered
    <3>1. CASE <<n, l>> = <<m, key>>
      BY <3>1, <2>4, <2>5, <2>6
    <3>2. CASE <<n, l>> # <<m, key>>
      BY <3>2, <2>4, <2>7, <2>8 DEF AInv, Unanswered, Questions
    <3> QED BY <3>1, <3>2
  <2>10. PendingOnce'
    <3> SUFFICES ASSUME NEW n1 \in Muds, NEW n2 \in Muds, NEW l1 \in Keys, NEW l2 \in Keys,
                        pending_data'[n1][l1] # Nil, pending_data'[n2][l2] # Nil,
                        pending_data'[n1][l1].question = pending_data'[n2][l2].question
                 PROVE  n1 = n2 /\ l1 = l2
      BY DEF PendingOnce
    <3>1. CASE <<n1, l1>> = <<m, key>> /\ <<n2, l2>> = <<m, key>>
      BY <3>1
    <3>2. CASE <<n1, l1>> # <<m, key>> /\ <<n2, l2>> # <<m, key>>
      BY <3>2, <2>7 DEF AInv, PendingOnce
    <3>3. CASE <<n1, l1>> = <<m, key>> /\ <<n2, l2>> # <<m, key>>
      BY <3>3, <2>6, <2>7, <2>8
    <3>4. CASE <<n1, l1>> # <<m, key>> /\ <<n2, l2>> = <<m, key>>
      BY <3>4, <2>6, <2>7, <2>8
    <3> QED BY <3>1, <3>2, <3>3, <3>4
  <2>11. NothingToldYet'
    BY <2>3, <2>4 DEF AInv, NothingToldYet, Questions
  <2>12. PendingTimed'
    <3> SUFFICES ASSUME NEW n \in Muds, NEW l \in Keys, pending_data'[n][l] # Nil
                 PROVE  l \in timeouts'[n]
      BY DEF PendingTimed
    <3>1. CASE <<n, l>> = <<m, key>>
      BY <3>1, <2>3 DEF TypeOK
    <3>2. CASE <<n, l>> # <<m, key>>
      BY <3>2, <2>3, <2>7 DEF AInv, PendingTimed, TypeOK
    <3> QED BY <3>1, <3>2
  <2>13. OneAnswer'
    BY <2>3 DEF AInv, OneAnswer
  <2> QED BY <2>9, <2>10, <2>11, <2>12, <2>13 DEF AInv
<1>3. ASSUME NEW m \in Muds, NEW p \in net, ReceiveWhole(m, p) PROVE AInv'
  <2>1. p.from \in Muds /\ p.data \in Data
    BY DEF TypeOK, Packet
  <2> QED BY <1>3, <2>1, TakeAnswers DEF ReceiveWhole
<1>4. ASSUME NEW m \in Muds, NEW p \in net, ReceiveFirstPart(m, p) PROVE AInv'
  BY <1>4, QuietAnswers DEF ReceiveFirstPart, history, AInv, PendingTimed
<1>5. ASSUME NEW m \in Muds, NEW p \in net, ReceiveNextPart(m, p) PROVE AInv'
  <2>1. p.from \in Muds /\ p.data \in Data
    BY DEF TypeOK, Packet
  <2>2. CASE Take(m, p.from, p.data)
    BY <1>5, <2>1, <2>2, TakeAnswers DEF ReceiveNextPart
  <2>3. CASE UNCHANGED <<pending_data, told>>
    BY <1>5, <2>3, QuietAnswers DEF ReceiveNextPart, AInv, PendingTimed
  <2> QED BY <1>5, <2>2, <2>3 DEF ReceiveNextPart
<1>6. ASSUME NEW m \in Muds, NEW k \in Keys, ReplyTimeOut(m, k) PROVE AInv'
  <2>1. UNCHANGED asked
    BY <1>6 DEF ReplyTimeOut
  <2>2. CASE pending_data[m][k] # Nil /\ pending_data[m][k].RETRY < RETRIES
    <3>1. /\ pending_data' = [pending_data EXCEPT ![m][k].RETRY = @ + 1]
          /\ UNCHANGED <<timeouts, told>>
      BY <2>2, <1>6 DEF ReplyTimeOut
    <3>2. pending_data[m][k] \in Pending
      BY <2>2 DEF TypeOK
    <3>3. \A n \in Muds, l \in Keys : pending_data'[n][l] # Nil =>
            /\ pending_data[n][l] # Nil
            /\ pending_data'[n][l].question = pending_data[n][l].question
      BY <3>1, <3>2, <2>2 DEF TypeOK, Pending
    <3> QED BY <2>1, <3>1, <3>3, QuietAnswers DEF AInv, PendingTimed
  <2>3. CASE pending_data[m][k] # Nil /\ ~(pending_data[m][k].RETRY < RETRIES)
    <3>1. /\ pending_data' = [pending_data EXCEPT ![m][k] = Nil]
          /\ told' = [told EXCEPT ![pending_data[m][k].question] = Append(@, TIME_OUT)]
          /\ timeouts' = [timeouts EXCEPT ![m] = @ \ {k}]
      BY <2>3, <1>6 DEF ReplyTimeOut
    <3>2. /\ Unanswered' /\ PendingOnce' /\ NothingToldYet' /\ OneAnswer'
          /\ \A n \in Muds, l \in Keys :
               pending_data'[n][l] # Nil => pending_data[n][l] # Nil
      BY <2>1, <2>3, <3>1, CloseAnswers
    <3>3. pending_data'[m][k] = Nil
      BY <3>1 DEF TypeOK
    <3>4. PendingTimed'
      BY <3>1, <3>2, <3>3 DEF AInv, PendingTimed, TypeOK
    <3> QED BY <3>2, <3>4 DEF AInv
  <2>4. CASE pending_data[m][k] = Nil
    <3>1. /\ pending_data' = [pending_data EXCEPT ![m][k] = Nil]
          /\ told' = told
          /\ timeouts' = [timeouts EXCEPT ![m] = @ \ {k}]
      BY <2>4, <1>6 DEF ReplyTimeOut
    <3>2. \A n \in Muds, l \in Keys : pending_data'[n][l] = pending_data[n][l]
      BY <3>1, <2>4 DEF TypeOK
    <3>3. \A n \in Muds, l \in Keys : pending_data[n][l] # Nil => l \in timeouts'[n]
      BY <3>1, <2>4 DEF AInv, PendingTimed, TypeOK
    <3> QED BY <2>1, <3>1, <3>2, <3>3, QuietAnswers
  <2> QED BY <2>2, <2>3, <2>4
<1>7. ASSUME NEW m \in Muds, NEW k \in Keys, RemoveIncoming(m, k) PROVE AInv'
  BY <1>7, QuietAnswers DEF RemoveIncoming, history, AInv, PendingTimed
<1>8. ASSUME NEW m \in Muds, NEW k \in Keys, RemoveReceivedId(m, k) PROVE AInv'
  BY <1>8, QuietAnswers DEF RemoveReceivedId, history, AInv, PendingTimed
<1>9. ASSUME NEW m \in Muds, Reload(m) PROVE AInv'
  <2>1. \A n \in Muds, l \in Keys : pending_data'[n][l] # Nil =>
          n # m /\ pending_data'[n][l] = pending_data[n][l]
    BY <1>9 DEF Reload, TypeOK
  <2>2. \A n \in Muds : n # m => timeouts'[n] = timeouts[n]
    BY <1>9 DEF Reload, TypeOK
  <2>3. UNCHANGED <<told, asked>>
    BY <1>9 DEF Reload
  <2> QED BY <2>1, <2>2, <2>3, QuietAnswers DEF AInv, PendingTimed
<1> QED
  BY <1>1, <1>2, <1>3, <1>4, <1>5, <1>6, <1>7, <1>8, <1>9 DEF Next

\* The asker of a question is told once, whatever the network does and whoever
\* is reloaded.
THEOREM ToldOnce == Spec => []OneAnswer
<1>1. TypeOK /\ AInv /\ [Next]_vars => (TypeOK /\ AInv)'
  BY TypeStep, AnswerStep
<1>2. Init => TypeOK /\ AInv
  BY TypeInit, AnswerInit
<1>3. AInv => OneAnswer
  BY DEF AInv
<1> QED BY <1>1, <1>2, <1>3, PTL DEF Spec

\* No request is left pending without a call_out that retries or closes it.
THEOREM NoForgottenRequest == Spec => []PendingTimed
<1>1. TypeOK /\ AInv /\ [Next]_vars => (TypeOK /\ AInv)'
  BY TypeStep, AnswerStep
<1>2. Init => TypeOK /\ AInv
  BY TypeInit, AnswerInit
<1>3. AInv => PendingTimed
  BY DEF AInv
<1> QED BY <1>1, <1>2, <1>3, PTL DEF Spec

-----------------------------------------------------------------------------
(* What holds of the network as long as no daemon was reloaded: an id      *)
(* names one question of its asker, a packet id one packet of its sender.  *)
(* From this, answers go to who asked, parts of different packets are not  *)
(* put together, and REPEAT is said of a repetition only.                  *)

\* The mud whose id a packet carries: a reply has the id of its request.
Asker(p) == IF p.data.REQUEST = "request" THEN p.from ELSE p.to

\* Ids are given out in order, those of questions and those of packets alike.
IdsGiven ==
  \A p \in net : p.pkt <= packet_id[p.from] /\ p.data.ID <= packet_id[Asker(p)]

\* An asker's id belongs to one question, in the request and in its replies.
OneQuestion ==
  \A p, r \in net : Asker(p) = Asker(r) /\ p.data.ID = r.data.ID
                      => p.data.question = r.data.question

\* The question that is pending under an id is the one that its packets carry.
PendingQuestion ==
  \A m \in Muds, k \in Keys : pending_data[m][k] # Nil =>
    /\ k[2] <= packet_id[m]
    /\ \A p \in net : Asker(p) = m /\ p.data.ID = k[2]
                        => p.data.question = pending_data[m][k].question

\* The parts of a sender's packet carry the same data.
OnePacket ==
  \A p, r \in net : p.from = r.from /\ p.pkt = r.pkt /\ p.pkt # 0 => p.data = r.data

\* A buffer holds parts that were sent, of the packet it is named after.
BuffersSent ==
  \A m \in Muds, k \in Keys : incoming[m][k] # Nil =>
    \A i \in 1 .. Parts : incoming[m][k][i] # Nil =>
      \E p \in net : p.from = k[1] /\ p.pkt = k[2] /\ p.data = incoming[m][k][i]

\* An id that was received belongs to a request that was passed on.
ReceivedSent ==
  \A m \in Muds : \A k \in received_ids[m] :
    \E p \in net : /\ p.data.REQUEST = "request" /\ p.from = k[1] /\ p.data.ID = k[2]
                   /\ p.data.question \in fresh[m]

ToldRight ==
  \A q \in Questions : \A i \in DOMAIN told[q] : told[q][i] \in {q, TIME_OUT}

NInv == /\ IdsGiven
        /\ OneQuestion
        /\ PendingQuestion
        /\ OnePacket
        /\ BuffersSent
        /\ ReceivedSent
        /\ ToldRight

Inv == TypeOK /\ (reloads = 0 => NInv)

-----------------------------------------------------------------------------

LEMMA PacketFacts ==
  ASSUME TypeOK, NEW p \in net
  PROVE  /\ p.from \in Muds /\ p.to \in Muds /\ p.data \in Data
         /\ p.data.ID \in Ids /\ p.data.question \in Questions
         /\ p.data.REQUEST \in {"request", "reply"}
         /\ p.pkt \in Nat /\ p.data.ID \in Nat
         /\ Asker(p) \in Muds
         /\ p.part # 0 => p.pkt \in Ids /\ p.part \in 1 .. Parts
<1>1. p \in Packet
  BY DEF TypeOK
<1>2. p.from \in Muds /\ p.to \in Muds /\ p.data \in Data
  BY <1>1 DEF Packet
<1>3. p.pkt \in Nat /\ (p.part # 0 => p.pkt \in Ids /\ p.part \in 1 .. Parts)
  BY <1>1 DEF Packet, Ids
<1>4. /\ p.data.ID \in Ids /\ p.data.question \in Questions
      /\ p.data.REQUEST \in {"request", "reply"} /\ p.data.ID \in Nat
  BY <1>2 DEF Data, Ids
<1> QED BY <1>2, <1>3, <1>4 DEF Asker

LEMMA NetInit == Init => Inv
<1> SUFFICES ASSUME Init PROVE Inv
  OBVIOUS
<1>1. TypeOK
  BY TypeInit
<1>2. net = {} /\ \A m \in Muds : received_ids[m] = {}
  BY DEF Init
<1>3. \A m \in Muds, k \in Keys : pending_data[m][k] = Nil /\ incoming[m][k] = Nil
  BY DEF Init
<1>4. \A q \in Questions : DOMAIN told[q] = {}
  BY DEF Init
<1> QED
  BY <1>1, <1>2, <1>3, <1>4
     DEF Inv, NInv, IdsGiven, OneQuestion, PendingQuestion, OnePacket, BuffersSent,
         ReceivedSent, ToldRight

\* Packets are never lost from the network, and ids only grow.
LEMMA BuffersKept ==
  ASSUME BuffersSent, net \subseteq net', UNCHANGED incoming
  PROVE  BuffersSent'
BY DEF BuffersSent

LEMMA ReceivedKept ==
  ASSUME TypeOK, ReceivedSent, net \subseteq net', UNCHANGED fresh,
         \A m \in Muds : received_ids'[m] \subseteq received_ids[m]
  PROVE  ReceivedSent'
BY DEF ReceivedSent

-----------------------------------------------------------------------------
(* A question is asked: its id, and that of its packet, is a new one.      *)

LEMMA AskNet ==
  ASSUME TypeOK, NInv, NEW m \in Muds, NEW to \in Muds, Ask(m, to)
  PROVE  NInv'
<1> DEFINE id   == packet_id[m] + 1
           data == [REQUEST |-> "request", ID |-> id, question |-> asked + 1]
<1>1. packet_id[m] \in Nat /\ id \in Nat /\ id # 0
  BY DEF TypeOK
<1>2. /\ packet_id' = [packet_id EXCEPT ![m] = id]
      /\ pending_data' = [pending_data EXCEPT ![m][<<to, id>>] =
                            [RETRY |-> 0, question |-> asked + 1]]
      /\ UNCHANGED <<received_ids, incoming, fresh, told>>
  BY DEF Ask, Asked
<1>3. packet_id'[m] = id /\ \A n \in Muds : n # m => packet_id'[n] = packet_id[n]
  BY <1>2 DEF TypeOK
<1>4. PICK packets \in {Whole(m, to, data), Split(m, to, id, data)} :
        net' = net \cup packets
  BY DEF Ask, Asked
<1>5. \A r \in packets : r.from = m /\ r.pkt \in {0, id} /\ r.data = data
  BY <1>4 DEF Whole, Split
<1>6. \A r \in packets : /\ Asker(r) = m /\ r.from = m /\ r.pkt \in {0, id}
                         /\ r.data = data /\ r.data.ID = id /\ r.data.question = asked + 1
  BY <1>5 DEF Asker
<1>7. \A r \in net : /\ r.pkt \in Nat /\ r.data.ID \in Nat
                     /\ r.from \in Muds /\ Asker(r) \in Muds
                     /\ packet_id[r.from] \in Nat /\ packet_id[Asker(r)] \in Nat
  BY PacketFacts DEF TypeOK
<1>8. \A r \in net : /\ r.from = m => r.pkt < id
                     /\ Asker(r) = m => r.data.ID < id
  BY <1>1, <1>7 DEF NInv, IdsGiven
<1> HIDE DEF id, data
<1>9. IdsGiven'
  <2>1. ASSUME NEW r \in net PROVE r.pkt <= packet_id'[r.from] /\ r.data.ID <= packet_id'[Asker(r)]
    <3>1. r.pkt <= packet_id'[r.from]
      BY <1>1, <1>3, <1>7, <1>8 DEF NInv, IdsGiven
    <3>2. r.data.ID <= packet_id'[Asker(r)]
      BY <1>1, <1>3, <1>7, <1>8 DEF NInv, IdsGiven
    <3> QED BY <3>1, <3>2
  <2>2. ASSUME NEW r \in packets PROVE r.pkt <= packet_id'[r.from] /\ r.data.ID <= packet_id'[Asker(r)]
    BY <1>1, <1>3, <1>6
  <2> QED BY <1>4, <2>1, <2>2 DEF IdsGiven, Asker
<1>10. OneQuestion'
  <2> SUFFICES ASSUME NEW p \in net', NEW r \in net', Asker(p) = Asker(r), p.data.ID = r.data.ID
               PROVE  p.data.question = r.data.question
    BY DEF OneQuestion, Asker
  <2>1. CASE p \in net /\ r \in net
    BY <2>1 DEF NInv, OneQuestion
  <2>2. CASE p \in packets /\ r \in packets
    BY <2>2, <1>6
  <2>3. (p \in packets /\ r \in net) \/ (p \in net /\ r \in packets) => FALSE
    BY <1>1, <1>6, <1>7, <1>8
  <2> QED BY <1>4, <2>1, <2>2, <2>3
<1>11. OnePacket'
  <2> SUFFICES ASSUME NEW p \in net', NEW r \in net', p.from = r.from, p.pkt = r.pkt, p.pkt # 0
               PROVE  p.data = r.data
    BY DEF OnePacket
  <2>1. CASE p \in net /\ r \in net
    BY <2>1 DEF NInv, OnePacket
  <2>2. CASE p \in packets /\ r \in packets
    BY <2>2, <1>6
  <2>3. (p \in packets /\ r \in net) \/ (p \in net /\ r \in packets) => FALSE
    BY <1>1, <1>6, <1>7, <1>8
  <2> QED BY <1>4, <2>1, <2>2, <2>3
<1>12. PendingQuestion'
  <2> SUFFICES ASSUME NEW n \in Muds, NEW k \in Keys, pending_data'[n][k] # Nil
               PROVE  /\ k[2] <= packet_id'[n]
                      /\ \A p \in net' : Asker(p) = n /\ p.data.ID = k[2]
                           => p.data.question = pending_data'[n][k].question
    BY DEF PendingQuestion, Asker
  <2>0. k[2] \in Nat /\ packet_id[n] \in Nat
    BY DEF Keys, Ids, TypeOK
  <2>1. CASE n = m /\ k = <<to, id>>
    <3>1. pending_data'[n][k].question = asked + 1
      BY <1>2, <2>1 DEF TypeOK
    <3>2. k[2] = id
      BY <2>1
    <3>3. \A p \in net' : Asker(p) = m /\ p.data.ID = id => p \in packets
      BY <1>1, <1>4, <1>7, <1>8
    <3> QED BY <1>1, <1>3, <1>6, <2>1, <3>1, <3>2, <3>3
  <2>2. CASE ~(n = m /\ k = <<to, id>>)
    <3>1. pending_data'[n][k] = pending_data[n][k]
      BY <1>2, <2>2 DEF TypeOK
    <3>2. k[2] <= packet_id[n]
      BY <3>1 DEF NInv, PendingQuestion
    <3>3. \A p \in net' : Asker(p) = n /\ p.data.ID = k[2] => p \in net
      <4> SUFFICES ASSUME NEW p \in packets, Asker(p) = n, p.data.ID = k[2] PROVE FALSE
        BY <1>4
      <4>1. n = m /\ k[2] = id
        BY <1>6
      <4>2. id = packet_id[m] + 1
        BY DEF id
      <4> QED BY <2>0, <3>2, <4>1, <4>2
    <3>4. \A p \in net' : Asker(p) = n /\ p.data.ID = k[2]
                            => p.data.question = pending_data'[n][k].question
      BY <3>1, <3>3 DEF NInv, PendingQuestion
    <3>5. k[2] <= packet_id'[n]
      <4>1. id = packet_id[m] + 1
        BY DEF id
      <4> QED BY <1>3, <2>0, <3>2, <4>1
    <3> QED BY <3>4, <3>5
  <2> QED BY <2>1, <2>2
<1>13. BuffersSent' /\ ReceivedSent'
  BY <1>2, <1>4, BuffersKept, ReceivedKept DEF NInv
<1>14. ToldRight'
  BY <1>2 DEF NInv, ToldRight
<1> QED BY <1>9, <1>10, <1>11, <1>12, <1>13, <1>14 DEF NInv

-----------------------------------------------------------------------------
(* A packet is received.                                                   *)

\* A reply repeats asker, id and question of a request that was sent, and its
\* parts have a new id.
LEMMA ReplyNet ==
  ASSUME TypeOK, NInv, NEW m \in Muds, NEW p \in net, p.data.REQUEST = "request",
         Reply(m, p.from, [p.data EXCEPT !.REQUEST = "reply"]),
         UNCHANGED pending_data
  PROVE  /\ IdsGiven' /\ OneQuestion' /\ OnePacket' /\ PendingQuestion'
         /\ net \subseteq net'
<1> DEFINE id   == packet_id[m] + 1
           data == [p.data EXCEPT !.REQUEST = "reply"]
<1>1. /\ packet_id[m] \in Nat /\ id \in Nat /\ id # 0
      /\ p.from \in Muds /\ p.data \in Data /\ p.data.ID \in Nat
      /\ packet_id[p.from] \in Nat
  BY PacketFacts DEF TypeOK
<1>2. /\ data.REQUEST = "reply" /\ data.ID = p.data.ID
      /\ data.question = p.data.question
  BY <1>1 DEF Data
<1>3. \A r \in net : /\ r.pkt \in Nat /\ r.data.ID \in Nat
                     /\ r.from \in Muds /\ Asker(r) \in Muds
                     /\ packet_id[r.from] \in Nat /\ packet_id[Asker(r)] \in Nat
                     /\ r.pkt <= packet_id[r.from] /\ r.data.ID <= packet_id[Asker(r)]
  BY PacketFacts DEF TypeOK, NInv, IdsGiven
<1>4. Asker(p) = p.from
  BY DEF Asker
<1> HIDE DEF data
<1>5. PICK packets :
        /\ net' = net \cup packets
        /\ \A r \in packets : r.from = m /\ r.to = p.from /\ r.data = data
        /\ \/ (\A r \in packets : r.pkt = 0) /\ UNCHANGED packet_id
           \/ /\ \A r \in packets : r.pkt = id
              /\ packet_id' = [packet_id EXCEPT ![m] = id]
  <2>1. CASE net' = net \cup Whole(m, p.from, data) /\ UNCHANGED packet_id
    <3> WITNESS Whole(m, p.from, data)
    <3> QED BY <2>1 DEF Whole
  <2>2. CASE /\ packet_id' = [packet_id EXCEPT ![m] = id]
             /\ net' = net \cup Split(m, p.from, id, data)
    <3> WITNESS Split(m, p.from, id, data)
    <3> QED BY <2>2 DEF Split
  <2> QED BY <2>1, <2>2 DEF Reply, data
<1>6. \A r \in packets : /\ Asker(r) = p.from /\ r.data.ID = p.data.ID
                         /\ r.data.question = p.data.question
  BY <1>2, <1>5 DEF Asker
<1>7. \A n \in Muds : packet_id'[n] \in Nat /\ packet_id[n] <= packet_id'[n]
  <2>1. UNCHANGED packet_id \/ packet_id' = [packet_id EXCEPT ![m] = id]
    BY <1>5
  <2> QED BY <1>1, <2>1 DEF TypeOK
<1>8. IdsGiven'
  <2>1. ASSUME NEW r \in net PROVE r.pkt <= packet_id'[r.from] /\ r.data.ID <= packet_id'[Asker(r)]
    BY <1>3, <1>7
  <2>2. ASSUME NEW r \in packets PROVE r.pkt <= packet_id'[r.from]
    BY <1>1, <1>5, <1>7 DEF TypeOK
  <2>3. ASSUME NEW r \in packets PROVE r.data.ID <= packet_id'[Asker(r)]
    BY <1>1, <1>3, <1>4, <1>6, <1>7
  <2> QED BY <1>5, <2>1, <2>2, <2>3 DEF IdsGiven, Asker
<1>9. OneQuestion'
  <2> SUFFICES ASSUME NEW q \in net', NEW r \in net', Asker(q) = Asker(r), q.data.ID = r.data.ID
               PROVE  q.data.question = r.data.question
    BY DEF OneQuestion, Asker
  <2>1. \A s \in net' : \E t \in net : /\ Asker(t) = Asker(s) /\ t.data.ID = s.data.ID
                                       /\ t.data.question = s.data.question
    BY <1>4, <1>5, <1>6
  <2> QED BY <2>1 DEF NInv, OneQuestion
<1>10. PendingQuestion'
  <2> SUFFICES ASSUME NEW n \in Muds, NEW k \in Keys, pending_data[n][k] # Nil
               PROVE  /\ k[2] <= packet_id'[n]
                      /\ \A r \in net' : Asker(r) = n /\ r.data.ID = k[2]
                           => r.data.question = pending_data[n][k].question
    BY DEF PendingQuestion, Asker
  <2>1. k[2] \in Nat /\ packet_id[n] \in Nat
    BY DEF Keys, Ids, TypeOK
  <2>2. k[2] <= packet_id'[n]
    BY <1>7, <2>1 DEF NInv, PendingQuestion
  <2> QED BY <1>4, <1>5, <1>6, <2>2 DEF NInv, PendingQuestion
<1>11. OnePacket'
  <2> SUFFICES ASSUME NEW q \in net', NEW r \in net', q.from = r.from, q.pkt = r.pkt, q.pkt # 0
               PROVE  q.data = r.data
    BY DEF OnePacket
  <2>1. CASE q \in net /\ r \in net
    BY <2>1 DEF NInv, OnePacket
  <2>2. CASE q \in packets /\ r \in packets
    BY <2>2, <1>5
  <2>3. \A s \in net : s.from = m => s.pkt < id
    BY <1>1, <1>3
  <2>4. (q \in packets /\ r \in net) \/ (q \in net /\ r \in packets) => FALSE
    BY <1>1, <1>3, <1>5, <2>3
  <2> QED BY <1>5, <2>1, <2>2, <2>4
<1> QED BY <1>5, <1>8, <1>9, <1>10, <1>11

LEMMA TakeNet ==
  ASSUME TypeOK, NInv, NEW p \in net, Take(p.to, p.from, p.data)
  PROVE  /\ IdsGiven' /\ OneQuestion' /\ PendingQuestion' /\ OnePacket'
         /\ ReceivedSent' /\ ToldRight'
         /\ net \subseteq net'
<1> DEFINE m   == p.to
           key == <<p.from, p.data.ID>>
<1>1. /\ m \in Muds /\ p.from \in Muds /\ key \in Keys /\ p.data \in Data
      /\ p.data.question \in Questions
  BY PacketFacts DEF Keys
<1>2. CASE p.data.REQUEST = "request" /\ TakeRequest(m, p.from, p.data)
  <2>1. /\ received_ids' = [received_ids EXCEPT ![m] = @ \cup {key}]
        /\ fresh' = IF key \in received_ids[m] THEN fresh
                      ELSE [fresh EXCEPT ![m] = @ \cup {p.data.question}]
        /\ \/ Reply(m, p.from, [p.data EXCEPT !.REQUEST = "reply"])
           \/ UNCHANGED <<net, packet_id>>
        /\ UNCHANGED <<pending_data, told>>
    BY <1>2 DEF TakeRequest
  <2>2. /\ IdsGiven' /\ OneQuestion' /\ OnePacket' /\ PendingQuestion'
        /\ net \subseteq net'
    <3>1. CASE Reply(m, p.from, [p.data EXCEPT !.REQUEST = "reply"])
      BY <1>1, <1>2, <2>1, <3>1, ReplyNet
    <3>2. CASE UNCHANGED <<net, packet_id>>
      BY <2>1, <3>2
         DEF NInv, IdsGiven, OneQuestion, OnePacket, PendingQuestion, Asker
    <3> QED BY <2>1, <3>1, <3>2
  <2>3. \A n \in Muds : /\ fresh[n] \subseteq fresh'[n]
                        /\ n # m => received_ids'[n] = received_ids[n]
    BY <2>1 DEF TypeOK
  <2>4. received_ids'[m] = received_ids[m] \cup {key}
    BY <1>1, <2>1 DEF TypeOK
  <2>5. ASSUME NEW n \in Muds, NEW k \in received_ids'[n]
        PROVE  \E r \in net : /\ r.data.REQUEST = "request" /\ r.from = k[1]
                              /\ r.data.ID = k[2] /\ r.data.question \in fresh'[n]
    <3>1. CASE k \in received_ids[n]
      BY <2>3, <3>1 DEF NInv, ReceivedSent
    <3>2. CASE k \notin received_ids[n]
      <4>1. n = m /\ k = key
        BY <2>3, <2>4, <2>5, <3>2
      <4>2. p.data.question \in fresh'[m]
        BY <1>1, <2>1, <3>2, <4>1 DEF TypeOK
      <4> QED BY <1>2, <4>1, <4>2
    <3> QED BY <3>1, <3>2
  <2>6. ReceivedSent'
    BY <2>2, <2>5 DEF ReceivedSent
  <2>7. ToldRight'
    BY <2>1 DEF NInv, ToldRight
  <2> QED BY <2>2, <2>6, <2>7
<1>3. CASE p.data.REQUEST = "reply" /\ TakeReply(m, p.from, p.data)
  <2>1. UNCHANGED <<packet_id, net, received_ids, fresh>>
    BY <1>3 DEF TakeReply
  <2>2. IdsGiven' /\ OneQuestion' /\ OnePacket' /\ ReceivedSent' /\ net \subseteq net'
    BY <2>1 DEF NInv, IdsGiven, OneQuestion, OnePacket, ReceivedSent, Asker
  <2>3. CASE pending_data[m][key] = Nil
    <3>1. UNCHANGED <<pending_data, told>>
      BY <1>3, <2>3 DEF TakeReply
    <3> QED BY <2>1, <2>2, <3>1 DEF NInv, PendingQuestion, ToldRight, Asker
  <2>4. CASE pending_data[m][key] # Nil
    <3> DEFINE q == pending_data[m][key].question
    <3>1. /\ told' = [told EXCEPT ![q] = Append(@, p.data.question)]
          /\ pending_data' = [pending_data EXCEPT ![m][key] = Nil]
      BY <1>3, <2>4 DEF TakeReply
    <3>2. p.data.question = q
      <4>1. Asker(p) = m
        BY <1>3 DEF Asker
      <4> QED BY <1>1, <2>4, <4>1 DEF NInv, PendingQuestion
    <3>3. \A n \in Muds, k \in Keys : pending_data'[n][k] # Nil =>
            pending_data'[n][k] = pending_data[n][k]
      <4> HIDE DEF key, m
      <4> QED BY <1>1, <3>1 DEF TypeOK
    <3>4. PendingQuestion'
      BY <2>1, <3>3 DEF NInv, PendingQuestion, Asker
    <3>5. ToldRight'
      BY <1>1, <3>1, <3>2 DEF NInv, ToldRight, TypeOK
    <3> QED BY <2>2, <3>4, <3>5
  <2> QED BY <2>3, <2>4
<1> QED BY <1>2, <1>3 DEF Take

\* The first part of a packet, or a part for a buffer that is there.
LEMMA BufferPart ==
  ASSUME TypeOK, BuffersSent, NEW p \in net, p.part # 0, net \subseteq net',
         NEW b \in Buffer \cup {Nil},
         incoming' = [incoming EXCEPT ![p.to][<<p.from, p.pkt>>] = b],
         b # Nil => \A i \in 1 .. Parts :
           b[i] \in {Nil, p.data}
           \/ (incoming[p.to][<<p.from, p.pkt>>] # Nil
               /\ b[i] = incoming[p.to][<<p.from, p.pkt>>][i])
  PROVE  BuffersSent'
<1> DEFINE key == <<p.from, p.pkt>>
<1>1. p.to \in Muds /\ key \in Keys /\ key[1] = p.from /\ key[2] = p.pkt
  BY PacketFacts DEF Keys
<1> HIDE DEF key
<1>2. ASSUME NEW m \in Muds, NEW k \in Keys, incoming'[m][k] # Nil,
             NEW i \in 1 .. Parts, incoming'[m][k][i] # Nil
      PROVE  \E r \in net : r.from = k[1] /\ r.pkt = k[2] /\ r.data = incoming'[m][k][i]
  <2>1. CASE m = p.to /\ k = key
    <3>1. incoming'[m][k] = b
      BY <1>1, <2>1 DEF TypeOK, key
    <3>2. CASE b[i] = p.data
      BY <1>1, <2>1, <3>1, <3>2
    <3>3. CASE incoming[m][k] # Nil /\ b[i] = incoming[m][k][i]
      BY <1>2, <3>1, <3>3 DEF BuffersSent
    <3> QED BY <1>2, <2>1, <3>1, <3>2, <3>3 DEF key
  <2>2. CASE ~(m = p.to /\ k = key)
    <3>1. incoming'[m][k] = incoming[m][k]
      BY <1>1, <2>2 DEF TypeOK, key
    <3> QED BY <1>2, <3>1 DEF BuffersSent
  <2> QED BY <2>1, <2>2
<1> QED BY <1>2 DEF BuffersSent

LEMMA NetStep == Inv /\ [Next]_vars => Inv'
<1> SUFFICES ASSUME Inv, [Next]_vars, reloads' = 0 PROVE NInv'
  BY TypeStep DEF Inv
<1>1. TypeOK
  BY DEF Inv
<1>2. reloads = 0 => NInv
  BY DEF Inv
<1>3. CASE UNCHANGED vars
  BY <1>2, <1>3
     DEF vars, state, history, NInv, IdsGiven, OneQuestion, PendingQuestion, OnePacket,
         BuffersSent, ReceivedSent, ToldRight, Asker
<1>4. ASSUME NEW m \in Muds, NEW to \in Muds, Ask(m, to) PROVE NInv'
  <2>1. UNCHANGED reloads
    BY <1>4 DEF Ask, Asked
  <2> QED BY <1>1, <1>2, <1>4, <2>1, AskNet
<1>5. ASSUME NEW m \in Muds, NEW p \in net, ReceiveWhole(m, p) PROVE NInv'
  <2>1. UNCHANGED <<reloads, incoming>> /\ Take(p.to, p.from, p.data)
    BY <1>5 DEF ReceiveWhole
  <2>2. NInv
    BY <1>2, <2>1
  <2>3. /\ IdsGiven' /\ OneQuestion' /\ PendingQuestion' /\ OnePacket'
        /\ ReceivedSent' /\ ToldRight' /\ net \subseteq net'
    BY <1>1, <2>1, <2>2, TakeNet
  <2>4. BuffersSent'
    BY <2>1, <2>2, <2>3, BuffersKept DEF NInv
  <2> QED BY <2>3, <2>4 DEF NInv
<1>6. ASSUME NEW m \in Muds, NEW p \in net, ReceiveFirstPart(m, p) PROVE NInv'
  <2> DEFINE b == [i \in 1 .. Parts |-> IF i = p.part THEN p.data ELSE Nil]
  <2>1. /\ p.part # 0 /\ p.to = m
        /\ incoming' = [incoming EXCEPT ![p.to][<<p.from, p.pkt>>] = b]
        /\ UNCHANGED <<packet_id, pending_data, received_ids, net, told, fresh, reloads>>
    BY <1>6 DEF ReceiveFirstPart, history
  <2>2. NInv
    BY <1>2, <2>1
  <2>3. b \in Buffer /\ \A i \in 1 .. Parts : b[i] \in {Nil, p.data}
    BY <1>1, PacketFacts DEF Buffer
  <2> HIDE DEF b
  <2>4. BuffersSent'
    BY <1>1, <2>1, <2>2, <2>3, BufferPart DEF NInv
  <2> QED
    BY <2>1, <2>2, <2>4
       DEF NInv, IdsGiven, OneQuestion, PendingQuestion, OnePacket, ReceivedSent,
           ToldRight, Asker
<1>7. ASSUME NEW m \in Muds, NEW p \in net, ReceiveNextPart(m, p) PROVE NInv'
  <2> DEFINE key == <<p.from, p.pkt>>
             buffer == [incoming[m][key] EXCEPT ![p.part] = p.data]
             b == IF Complete(buffer) THEN Nil ELSE buffer
  <2>1. /\ p.part # 0 /\ p.to = m /\ incoming[m][key] # Nil
        /\ incoming' = [incoming EXCEPT ![m][key] = b]
        /\ \/ Take(m, p.from, p.data)
           \/ UNCHANGED <<packet_id, pending_data, received_ids, net, told, fresh>>
        /\ UNCHANGED reloads
    BY <1>7 DEF ReceiveNextPart
  <2>2. NInv
    BY <1>2, <2>1
  <2>3. /\ IdsGiven' /\ OneQuestion' /\ PendingQuestion' /\ OnePacket'
        /\ ReceivedSent' /\ ToldRight' /\ net \subseteq net'
    <3>1. CASE Take(m, p.from, p.data)
      BY <1>1, <2>1, <2>2, <3>1, TakeNet
    <3>2. CASE UNCHANGED <<packet_id, pending_data, received_ids, net, told, fresh>>
      BY <2>2, <3>2
         DEF NInv, IdsGiven, OneQuestion, PendingQuestion, OnePacket, ReceivedSent,
             ToldRight, Asker
    <3> QED BY <2>1, <3>1, <3>2
  <2>4. incoming[m][key] \in Buffer /\ p.data \in Data /\ p.part \in 1 .. Parts
    <3>1. p.data \in Data /\ p.part \in 1 .. Parts /\ key \in Keys
      BY <1>1, <2>1, PacketFacts DEF Keys
    <3> HIDE DEF key
    <3> QED BY <1>1, <2>1, <3>1 DEF TypeOK
  <2>5. /\ buffer \in Buffer
        /\ \A i \in 1 .. Parts : buffer[i] = p.data \/ buffer[i] = incoming[m][key][i]
    BY <2>4 DEF Buffer
  <2>6. /\ b \in Buffer \cup {Nil}
        /\ b # Nil => \A i \in 1 .. Parts :
             b[i] \in {Nil, p.data} \/ (incoming[m][key] # Nil /\ b[i] = incoming[m][key][i])
    <3> HIDE DEF buffer, key
    <3> QED BY <2>1, <2>5
  <2>7. BuffersSent'
    <3> HIDE DEF b
    <3> QED BY <1>1, <2>1, <2>2, <2>3, <2>6, BufferPart DEF NInv
  <2> QED BY <2>3, <2>7 DEF NInv
<1>8. ASSUME NEW m \in Muds, NEW k \in Keys, ReplyTimeOut(m, k) PROVE NInv'
  <2>1. UNCHANGED <<packet_id, received_ids, incoming, net, fresh, reloads>>
    BY <1>8 DEF ReplyTimeOut
  <2>2. NInv
    BY <1>2, <2>1
  <2>3. IdsGiven' /\ OneQuestion' /\ OnePacket' /\ BuffersSent' /\ ReceivedSent'
    BY <2>1, <2>2
       DEF NInv, IdsGiven, OneQuestion, OnePacket, BuffersSent, ReceivedSent, Asker
  <2>4. \A n \in Muds, l \in Keys : pending_data'[n][l] # Nil =>
          pending_data[n][l] # Nil /\ pending_data'[n][l].question = pending_data[n][l].question
    <3>1. CASE pending_data[m][k] # Nil /\ pending_data[m][k].RETRY < RETRIES
      <4>1. pending_data' = [pending_data EXCEPT ![m][k].RETRY = @ + 1]
        BY <1>8, <3>1 DEF ReplyTimeOut
      <4>2. pending_data[m][k] \in Pending
        BY <1>1, <3>1 DEF TypeOK
      <4> QED BY <1>1, <3>1, <4>1, <4>2 DEF TypeOK, Pending
    <3>2. CASE ~(pending_data[m][k] # Nil /\ pending_data[m][k].RETRY < RETRIES)
      <4>1. pending_data' = [pending_data EXCEPT ![m][k] = Nil]
        BY <1>8, <3>2 DEF ReplyTimeOut
      <4> QED BY <1>1, <4>1 DEF TypeOK
    <3> QED BY <3>1, <3>2
  <2>5. PendingQuestion'
    BY <2>1, <2>2, <2>4 DEF NInv, PendingQuestion, Asker
  <2>6. ToldRight'
    <3>1. CASE UNCHANGED told
      BY <2>2, <3>1 DEF NInv, ToldRight
    <3>2. CASE pending_data[m][k] # Nil
               /\ told' = [told EXCEPT ![pending_data[m][k].question] = Append(@, TIME_OUT)]
      <4>1. pending_data[m][k].question \in Questions
        BY <1>1, <3>2 DEF TypeOK, Pending
      <4> QED BY <1>1, <2>2, <3>2, <4>1 DEF NInv, ToldRight, TypeOK
    <3> QED BY <1>8, <3>1, <3>2 DEF ReplyTimeOut
  <2> QED BY <2>3, <2>5, <2>6 DEF NInv
<1>9. ASSUME NEW m \in Muds, NEW k \in Keys, RemoveIncoming(m, k) PROVE NInv'
  <2>1. /\ incoming' = [incoming EXCEPT ![m][k] = Nil]
        /\ UNCHANGED <<packet_id, pending_data, received_ids, net, told, fresh, reloads>>
    BY <1>9 DEF RemoveIncoming, history
  <2>2. NInv
    BY <1>2, <2>1
  <2>3. \A n \in Muds, l \in Keys : incoming'[n][l] # Nil => incoming'[n][l] = incoming[n][l]
    BY <1>1, <2>1 DEF TypeOK
  <2>4. BuffersSent'
    BY <2>1, <2>2, <2>3 DEF NInv, BuffersSent
  <2> QED
    BY <2>1, <2>2, <2>4
       DEF NInv, IdsGiven, OneQuestion, PendingQuestion, OnePacket, ReceivedSent,
           ToldRight, Asker
<1>10. ASSUME NEW m \in Muds, NEW k \in Keys, RemoveReceivedId(m, k) PROVE NInv'
  <2>1. /\ received_ids' = [received_ids EXCEPT ![m] = @ \ {k}]
        /\ UNCHANGED <<packet_id, pending_data, incoming, net, told, fresh, reloads>>
    BY <1>10 DEF RemoveReceivedId, history
  <2>2. NInv
    BY <1>2, <2>1
  <2>3. \A n \in Muds : received_ids'[n] \subseteq received_ids[n]
    BY <1>1, <2>1 DEF TypeOK
  <2>4. ReceivedSent'
    BY <1>1, <2>1, <2>2, <2>3, ReceivedKept DEF NInv
  <2> QED
    BY <2>1, <2>2, <2>4
       DEF NInv, IdsGiven, OneQuestion, PendingQuestion, OnePacket, BuffersSent,
           ToldRight, Asker
<1>11. ASSUME NEW m \in Muds, Reload(m) PROVE FALSE
  BY <1>1, <1>11 DEF Reload, TypeOK
<1> QED
  BY <1>3, <1>4, <1>5, <1>6, <1>7, <1>8, <1>9, <1>10, <1>11 DEF Next

\* As long as no daemon was reloaded, ids tell questions and packets apart on the
\* whole network, on the way and in every mud's tables.
THEOREM NetInvariant == Spec => []Inv
BY NetInit, NetStep, PTL DEF Spec

-----------------------------------------------------------------------------
(* What follows.                                                           *)

\* As long as no daemon was reloaded, what the asker of a question is told is the
\* reply to this question or that there is none, whatever UDP does to packets.
THEOREM AnswersMatch == Spec => []AnswerMatches
<1>1. Inv => AnswerMatches
  BY DEF Inv, NInv, ToldRight, AnswerMatches
<1> QED BY <1>1, NetInvariant, PTL

\* As long as no daemon was reloaded, a buffer and the parts still to come are
\* of one packet.
THEOREM PacketsNotMixed == Spec => []OnePacketPerBuffer
<1>1. Inv => OnePacketPerBuffer
  <2> SUFFICES ASSUME TypeOK, NInv, NEW p \in net, p.part # 0,
                      incoming[p.to][<<p.from, p.pkt>>] # Nil, NEW i \in 1 .. Parts,
                      incoming[p.to][<<p.from, p.pkt>>][i] # Nil
               PROVE  incoming[p.to][<<p.from, p.pkt>>][i] = p.data
    BY DEF Inv, OnePacketPerBuffer, PartsFit
  <2> DEFINE key == <<p.from, p.pkt>>
  <2>1. p.to \in Muds /\ key \in Keys /\ key[1] = p.from /\ key[2] = p.pkt /\ p.pkt # 0
    BY PacketFacts DEF Keys, Ids
  <2>2. PICK r \in net : r.from = key[1] /\ r.pkt = key[2] /\ r.data = incoming[p.to][key][i]
    BY <2>1 DEF NInv, BuffersSent
  <2> QED BY <2>1, <2>2 DEF NInv, OnePacket
<1> QED BY <1>1, NetInvariant, PTL

\* As long as no daemon was reloaded, a request is passed on with REPEAT only if
\* the module has seen its question before.
THEOREM RepeatsRepeat == Spec => RepeatIsRepeat
<1> DEFINE R == reloads = 0 =>
       \A m \in Muds : \A p \in net :
         /\ p.data.REQUEST = "request" /\ p.to = m
         /\ <<p.from, p.data.ID>> \in received_ids[m]
         => p.data.question \in fresh[m]
<1>1. Inv => R
  <2> SUFFICES ASSUME TypeOK, NInv, NEW m \in Muds, NEW p \in net,
                      p.data.REQUEST = "request",
                      <<p.from, p.data.ID>> \in received_ids[m]
               PROVE  p.data.question \in fresh[m]
    BY DEF Inv
  <2>1. PICK r \in net : /\ r.data.REQUEST = "request" /\ r.from = p.from
                         /\ r.data.ID = p.data.ID /\ r.data.question \in fresh[m]
    BY DEF NInv, ReceivedSent
  <2>2. Asker(p) = Asker(r)
    BY <2>1 DEF Asker
  <2> QED BY <2>1, <2>2 DEF NInv, OneQuestion
<1>2. R => [R]_vars
  OBVIOUS
<1>3. RepeatIsRepeat <=> [][R]_vars
  BY DEF RepeatIsRepeat
<1> HIDE DEF R
<1> QED BY <1>1, <1>2, <1>3, NetInvariant, PTL
=============================================================================
