------------------------ MODULE ReliableStreamProofs ------------------------
(***************************************************************************)
(* Theorems about ReliableStream, for every number of messages, fragments, *)
(* senders, packets and retransmissions, and every modulus of the sequence *)
(* IDs: that a missing packet is always about to be sent again, and that   *)
(* the stream is a reliable channel, until a sequence ID is taken for      *)
(* another packet's.                                                       *)
(***************************************************************************)
EXTENDS ReliableStream, SequenceTheorems, TLAPS

-----------------------------------------------------------------------------
(***************************************************************************)
(* Type correctness.                                                       *)
(***************************************************************************)

\* Sequence IDs are below the modulus.
LEMMA SequenceIDs == \A k \in Nat : SequenceID(k) \in 0 .. Modulus - 1
<1>1. Modulus \in Nat \ {0} /\ FirstSequenceID \in Nat \ {0}
  BY StreamAssumption DEF StreamAssumption
<1>2. ASSUME NEW x \in Nat PROVE x % Modulus \in 0 .. Modulus - 1
  BY <1>1
<1>3. ASSUME NEW k \in Nat PROVE SequenceID(k) \in 0 .. Modulus - 1
  <2>1. FirstSequenceID + k - 1 \in Nat
    BY <1>1
  <2>2. QED
    BY <1>2, <2>1 DEF SequenceID
<1>4. QED
  BY <1>3

\* A packet sent carries a number, and a sequence ID below the modulus.
LEMMA PacketType ==
  ASSUME TypeOK, NEW n \in 1 .. Len(packets)
  PROVE  packets[n] \in Packet /\ packets[n].number \in Nat /\ IDOf(n) \in 0 .. Modulus - 1
<1>1. packets[n] \in Packet
  BY ElementOfSeq DEF TypeOK
<1>2. packets[n].number \in Nat
  BY <1>1 DEF Packet
<1>3. QED
  BY <1>1, <1>2, SequenceIDs DEF IDOf

\* The fragments of a message tell which message it is.
LEMMA AssembledType ==
  ASSUME TypeOK, NEW fragments
  PROVE  Assembled(fragments) \in Messages \cup {Garbled}
<1>1. CASE \E j \in 1 .. Len(sent) : fragments = FragmentsOf(j)
  <2>1. PICK j \in 1 .. Len(sent) : fragments = FragmentsOf(j)
    BY <1>1
  <2>2. sent[j] \in Messages
    BY ElementOfSeq DEF TypeOK
  <2>3. 1 \in 1 .. Size[sent[j]]
    BY <2>2, StreamAssumption DEF StreamAssumption
  <2>4. fragments[1].message = j
    BY <2>1, <2>3 DEF FragmentsOf
  <2>5. QED
    BY <1>1, <2>2, <2>4 DEF Assembled
<1>2. CASE ~ \E j \in 1 .. Len(sent) : fragments = FragmentsOf(j)
  BY <1>2 DEF Assembled
<1>3. QED
  BY <1>1, <1>2

\* A message sent is one of the messages, and its sender is at its first part.
LEMMA SendKeepsTypeOK ==
  ASSUME TypeOK, NEW s \in Senders, NEW m \in Messages, Send(s, m)
  PROVE  TypeOK'
<1>1. Len(sent) \in Nat /\ sent' \in Seq(Messages)
  BY LenProperties, AppendProperties DEF TypeOK, Send
<1>2. At(Len(sent) + 1, 1, "pausing", 0) \in Sending
  BY <1>1 DEF Sending, At
<1>3. sending' \in [Senders -> Sending \cup {Idle}]
  BY <1>2 DEF TypeOK, Send
<1>4. overlapped' \in BOOLEAN
  BY DEF TypeOK, Send
<1>5. UNCHANGED <<counter, packets, pending, timers, connected, receiverVars, mistaken>>
  BY DEF Send
<1>6. QED
  BY <1>1, <1>3, <1>4, <1>5 DEF TypeOK, receiverVars

\* Reading the counter, a goroutine keeps a number.
LEMMA ReadCounterKeepsTypeOK ==
  ASSUME TypeOK, NEW s \in Senders, ReadCounter(s)
  PROVE  TypeOK'
<1>1. sending[s] \in Sending /\ counter \in Nat
  BY DEF TypeOK, ReadCounter
<1>2. At(sending[s].message, sending[s].part, "read", counter) \in Sending
  BY <1>1 DEF Sending, At
<1>3. sending' \in [Senders -> Sending \cup {Idle}]
  BY <1>2 DEF TypeOK, ReadCounter
<1>4. UNCHANGED <<sent, counter, packets, pending, timers, connected, overlapped,
                  receiverVars, mistaken>>
  BY DEF ReadCounter
<1>5. QED
  BY <1>3, <1>4 DEF TypeOK, receiverVars

\* Writing it, what it has read plus one.
LEMMA NumberingKeepsTypeOK ==
  ASSUME TypeOK, NEW s \in Senders, NextOutgoingSequenceID(s)
  PROVE  TypeOK'
<1> DEFINE number == sending[s].number + 1
<1>1. sending[s] \in Sending
  BY DEF TypeOK, NextOutgoingSequenceID, Idle, At
<1>2. number \in Nat
  BY <1>1 DEF Sending
<1>3. /\ counter' = number
      /\ sending' = [sending EXCEPT ![s] = At(@.message, @.part, "numbered", number)]
      /\ mistaken' = (mistaken \/ counter # sending[s].number)
      /\ UNCHANGED <<sent, packets, pending, timers, connected, overlapped, receiverVars>>
  BY DEF NextOutgoingSequenceID
<1> HIDE DEF number
<1>4. At(sending[s].message, sending[s].part, "numbered", number) \in Sending
  BY <1>1, <1>2 DEF Sending, At
<1>5. sending' \in [Senders -> Sending \cup {Idle}]
  BY <1>3, <1>4 DEF TypeOK
<1>6. mistaken' \in BOOLEAN
  BY <1>3 DEF TypeOK
<1>7. QED
  BY <1>2, <1>3, <1>5, <1>6 DEF TypeOK, receiverVars

\* What SendPacket does to the packets.
LEMMA PacketSent ==
  ASSUME TypeOK, NEW s \in Senders, SendPacket(s)
  PROVE  /\ sending[s] \in Sending /\ sending[s].number \in Nat
         /\ Len(packets) \in Nat
         /\ packets' \in Seq(Packet) /\ Len(packets') = Len(packets) + 1
         /\ \A i \in 1 .. Len(packets) : packets'[i] = packets[i]
         /\ packets'[Len(packets) + 1].message = sending[s].message
         /\ packets'[Len(packets) + 1].part = sending[s].part
         /\ packets'[Len(packets) + 1].number = sending[s].number
<1> DEFINE packet == [message |-> sending[s].message, part |-> sending[s].part,
                      number |-> sending[s].number]
<1>1. sending[s] \in Sending
  BY DEF TypeOK, SendPacket, Idle, At
<1>2. sending[s].number \in Nat
  BY <1>1 DEF Sending
<1>3. packet \in Packet
  BY <1>1, <1>2 DEF Sending, Packet
<1>4. packets \in Seq(Packet) /\ packets' = Append(packets, packet)
  BY DEF TypeOK, SendPacket
<1>5. /\ packet.message = sending[s].message /\ packet.part = sending[s].part
      /\ packet.number = sending[s].number
  OBVIOUS
<1> HIDE DEF packet
<1>6. /\ Len(packets) \in Nat
      /\ packets' \in Seq(Packet) /\ Len(packets') = Len(packets) + 1
      /\ \A i \in 1 .. Len(packets) : packets'[i] = packets[i]
      /\ packets'[Len(packets) + 1] = packet
  BY <1>3, <1>4, LenProperties, AppendProperties
<1>7. QED
  BY <1>1, <1>2, <1>5, <1>6

\* A packet sent is remembered under a sequence ID below the modulus.
LEMMA SendPacketKeepsTypeOK ==
  ASSUME TypeOK, NEW s \in Senders, SendPacket(s)
  PROVE  TypeOK'
<1> DEFINE n == Len(packets) + 1
           fragment == sending[s]
           id == SequenceID(fragment.number)
<1>0. /\ fragment \in Sending /\ fragment.number \in Nat
      /\ Len(packets) \in Nat
      /\ packets' \in Seq(Packet) /\ Len(packets') = n
  BY PacketSent
<1> HIDE DEF fragment
<1>1. n \in Nat \ {0} /\ id \in 0 .. Modulus - 1
  <2>1. id \in 0 .. Modulus - 1
    <3> DEFINE k == fragment.number
    <3>1. k \in Nat
      BY <1>0
    <3> HIDE DEF k
    <3>2. SequenceID(k) \in 0 .. Modulus - 1
      BY <3>1, SequenceIDs
    <3>3. QED
      BY <3>2 DEF k
  <2>2. n \in Nat \ {0}
    BY <1>0
  <2>3. QED
    BY <2>1, <2>2
<1>2. At(fragment.message, fragment.part + 1, "pausing", 0) \in Sending
  BY <1>0 DEF Sending, At
<1>3. sending' \in [Senders -> Sending \cup {Idle}]
  BY <1>2 DEF TypeOK, SendPacket, fragment
<1>4. packets' \in Seq(Packet) /\ 1 .. Len(packets') = 1 .. Len(packets) \cup {n}
  BY <1>0
<1>5. /\ pending' = With(pending, id, n) /\ timers' = With(timers, n, 1)
      /\ mistaken' = (mistaken \/ id \in DOMAIN pending)
      /\ UNCHANGED <<sent, counter, connected, overlapped, receiverVars>>
  BY DEF SendPacket, fragment
<1> HIDE DEF id
<1>6. /\ DOMAIN pending' \subseteq 0 .. Modulus - 1
      /\ \A i \in DOMAIN pending' : pending'[i] \in 1 .. Len(packets')
  BY <1>1, <1>4, <1>5 DEF TypeOK, With
<1>7. /\ DOMAIN timers' \subseteq 1 .. Len(packets')
      /\ \A i \in DOMAIN timers' : timers'[i] \in Nat \ {0}
  BY <1>4, <1>5 DEF TypeOK, With
<1>8. mistaken' \in BOOLEAN
  BY <1>5 DEF TypeOK
<1>9. picked \in 0 .. Len(packets')
  BY <1>0 DEF TypeOK
<1>10. QED
  BY <1>3, <1>4, <1>5, <1>6, <1>7, <1>8, <1>9 DEF TypeOK, receiverVars

\* The end of the connection at the sender's end.
LEMMA SenderEndsKeepsTypeOK ==
  ASSUME TypeOK, SenderEnds,
         UNCHANGED <<sent, sending, counter, packets, overlapped, receiverVars, mistaken>>
  PROVE  TypeOK'
<1>1. DOMAIN pending' = {} /\ DOMAIN timers' = {} /\ connected' = FALSE
  BY DEF SenderEnds
<1>2. QED
  BY <1>1 DEF TypeOK, receiverVars

\* A timer of packet n keeps the types.
LEMMA TimeoutKeepsTypeOK ==
  ASSUME TypeOK, NEW n \in 1 .. Len(packets), Timeout(n)
  PROVE  TypeOK'
<1>1. UNCHANGED <<sent, sending, counter, packets, overlapped, receiverVars, mistaken>>
  BY DEF Timeout
<1>2. CASE timers' = [timers EXCEPT ![n] = @ + 1] /\ UNCHANGED <<pending, connected>>
  BY <1>1, <1>2 DEF TypeOK, Timeout, receiverVars
<1>3. CASE SenderEnds
  BY <1>1, <1>3, SenderEndsKeepsTypeOK
<1>4. CASE timers' = Without(timers, n) /\ UNCHANGED <<pending, connected>>
  BY <1>1, <1>4 DEF TypeOK, Without, receiverVars
<1>5. QED
  BY <1>2, <1>3, <1>4 DEF Timeout

\* Acknowledgments only remove packets to acknowledge.
LEMMA AcksKeepTypeOK ==
  ASSUME TypeOK, (\E n \in 1 .. Len(packets) : ReceiveAck(n))
                 \/ (\E k \in 1 .. counter : ReceiveMultiAck(k))
  PROVE  TypeOK'
<1>1. /\ DOMAIN pending' \subseteq DOMAIN pending
      /\ \A i \in DOMAIN pending' : pending'[i] = pending[i]
      /\ mistaken' \in BOOLEAN
      /\ UNCHANGED <<sent, sending, counter, packets, timers, connected, overlapped, receiverVars>>
  <2>1. ASSUME NEW n \in 1 .. Len(packets), ReceiveAck(n) PROVE <1>1!:
    BY <2>1 DEF TypeOK, ReceiveAck, Without
  <2>2. ASSUME NEW k \in 1 .. counter, ReceiveMultiAck(k) PROVE <1>1!:
    BY <2>2 DEF TypeOK, ReceiveMultiAck
  <2>3. QED
    BY <2>1, <2>2
<1>2. QED
  BY <1>1 DEF TypeOK, receiverVars

\* What arrives is queued under its sequence ID.
LEMMA ArriveKeepsTypeOK ==
  ASSUME TypeOK, NEW n \in 1 .. Len(packets), Arrive(n)
  PROVE  TypeOK'
<1>1. IDOf(n) \in 0 .. Modulus - 1
  BY PacketType
<1>2. QED
  BY <1>1 DEF TypeOK, Arrive, With, senderVars

\* What GetNextToDispatch finds is a packet.
LEMMA PickKeepsTypeOK ==
  ASSUME TypeOK, GetNextToDispatch
  PROVE  /\ TypeOK'
         /\ picked' \in 1 .. Len(packets)
<1>1. picked' = queue[SequenceID(dispatched + 1)] /\ SequenceID(dispatched + 1) \in DOMAIN queue
  BY DEF GetNextToDispatch, Dispatchable
<1>2. picked' \in 1 .. Len(packets) /\ Len(packets) \in Nat
  BY <1>1, LenProperties DEF TypeOK
<1>3. /\ mistaken' \in BOOLEAN
      /\ UNCHANGED <<listening, arrived, queue, dispatched, buffer, received, senderVars>>
  BY DEF TypeOK, GetNextToDispatch
<1>4. QED
  BY <1>2, <1>3 DEF TypeOK, senderVars

\* What is collected and received is of its kind.
LEMMA DispatchKeepsTypeOK ==
  ASSUME TypeOK, Dispatch
  PROVE  TypeOK'
<1> DEFINE fragment == Deciphered(picked)
           collected == Append(buffer, fragment)
<1>1. picked \in 1 .. Len(packets) /\ Len(packets) \in Nat
  BY LenProperties DEF TypeOK, Dispatch
<1>2. fragment \in Fragment \cup {Noise}
  BY <1>1, PacketType DEF Deciphered, Fragment, Packet
<1> HIDE DEF fragment
<1>3. collected \in Seq(Fragment \cup {Noise}) /\ << >> \in Seq(Fragment \cup {Noise})
  BY <1>2, AppendProperties, EmptySeq DEF TypeOK
<1>4. Append(received, Assembled(collected)) \in Seq(Messages \cup {Garbled})
  BY AssembledType, AppendProperties DEF TypeOK
<1>5. /\ buffer' \in {collected, << >>}
      /\ received' \in {received, Append(received, Assembled(collected))}
      /\ dispatched' = dispatched + 1 /\ queue' = Without(queue, IDOf(picked)) /\ picked' = 0
      /\ UNCHANGED <<listening, arrived, senderVars, mistaken>>
  BY DEF Dispatch, fragment
<1> HIDE DEF collected
<1>6. /\ UNCHANGED <<sent, sending, counter, packets, pending, timers, connected, overlapped>>
      /\ UNCHANGED <<listening, arrived, mistaken>>
  BY <1>5 DEF senderVars
<1>7. buffer' \in Seq(Fragment \cup {Noise}) /\ received' \in Seq(Messages \cup {Garbled})
  BY <1>3, <1>4, <1>5 DEF TypeOK
<1>8. /\ DOMAIN queue' \subseteq 0 .. Modulus - 1
      /\ \A j \in DOMAIN queue' : queue'[j] \in 1 .. Len(packets)
  BY <1>5 DEF TypeOK, Without
<1>9. QED
  BY <1>1, <1>5, <1>6, <1>7, <1>8 DEF TypeOK

\* Every step keeps the types.
LEMMA NextKeepsTypeOK == TypeOK /\ [Next]_vars => TypeOK'
<1> SUFFICES ASSUME TypeOK, [Next]_vars PROVE TypeOK'
  OBVIOUS
<1>1. CASE CleanupReceiver
  <2>1. DOMAIN queue' = {}
    BY <1>1 DEF CleanupReceiver
  <2>2. QED
    BY <1>1, <2>1 DEF TypeOK, CleanupReceiver, senderVars
<1>2. CASE CleanupConnection
  BY <1>2, SenderEndsKeepsTypeOK DEF CleanupConnection
<1>3. CASE UNCHANGED vars
  BY <1>3 DEF TypeOK, vars, senderVars, receiverVars
<1>4. CASE \E s \in Senders : SenderStep(s) \/ \E m \in Messages : Send(s, m)
  BY <1>4, SendKeepsTypeOK, ReadCounterKeepsTypeOK, NumberingKeepsTypeOK, SendPacketKeepsTypeOK
  DEF SenderStep
<1>5. CASE \E n \in 1 .. Len(packets) : Timeout(n) \/ ReceiveAck(n) \/ Arrive(n)
  BY <1>5, TimeoutKeepsTypeOK, AcksKeepTypeOK, ArriveKeepsTypeOK
<1>6. QED
  BY <1>1, <1>2, <1>3, <1>4, <1>5, AcksKeepTypeOK, PickKeepsTypeOK, DispatchKeepsTypeOK DEF Next

\* They hold of a connection on which nothing has been sent.
LEMMA InitHasType == Init => TypeOK
<1> SUFFICES ASSUME Init PROVE TypeOK
  OBVIOUS
<1>1. DOMAIN pending = {} /\ DOMAIN timers = {} /\ DOMAIN queue = {}
  BY DEF Init
<1>2. Len(packets) = 0 /\ picked \in 0 .. Len(packets)
  BY EmptySeq DEF Init
<1>3. QED
  BY <1>1, <1>2, EmptySeq DEF Init, TypeOK

\* Type correctness: packets, fragments, sequence IDs and timers stay in their
\* ranges, whatever the network does and however goroutines interleave.
THEOREM TypeCorrectness == Spec => []TypeOK
<1>1. TypeOK /\ [Next]_vars => TypeOK'
  BY NextKeepsTypeOK
<1>2. QED
  BY <1>1, InitHasType, PTL DEF Spec

-----------------------------------------------------------------------------
(***************************************************************************)
(* Missing packets.                                                        *)
(***************************************************************************)

Missing == (1 .. Len(packets)) \ arrived

NumberedSender(s) ==
  /\ sending[s].number \in 1 .. counter
  /\ \A n \in 1 .. Len(packets) : packets[n].number # sending[s].number
  /\ \A other \in Senders \ {s} :
       sending[other].step = "numbered" => sending[other].number # sending[s].number

\* No number was handed out twice.
NumbersDiffer ==
  /\ \A n \in 1 .. Len(packets) : packets[n].number \in 1 .. counter
  /\ \A m, n \in 1 .. Len(packets) : m # n => packets[m].number # packets[n].number
  /\ \A s \in Senders : sending[s].step = "numbered" => NumberedSender(s)

SenderInv == TypeOK /\ (~mistaken => NumbersDiffer) /\ MissingPacketsArePending

\* A goroutine that begins a message or reads the counter has no number.
LEMMA UnnumberedKeepsNumbers ==
  ASSUME TypeOK, NumbersDiffer, NEW s \in Senders, sending'[s].step # "numbered",
         \A other \in Senders \ {s} : sending'[other] = sending[other],
         UNCHANGED <<counter, packets>>
  PROVE  NumbersDiffer'
<1>1. ASSUME NEW t \in Senders, sending'[t].step = "numbered" PROVE NumberedSender(t)'
  <2>1. t # s /\ sending'[t] = sending[t]
    BY <1>1
  <2>2. NumberedSender(t)
    BY <1>1, <2>1 DEF NumbersDiffer
  <2>3. \A other \in Senders \ {t} : sending'[other].step = "numbered" =>
          sending[other].step = "numbered" /\ sending'[other] = sending[other]
    OBVIOUS
  <2>4. QED
    BY <2>1, <2>2, <2>3 DEF NumberedSender
<1>2. QED
  BY <1>1 DEF NumbersDiffer

\* A number that is counted on from the last one is new.
LEMMA NumberingKeepsNumbers ==
  ASSUME TypeOK, NumbersDiffer, NEW s \in Senders, NextOutgoingSequenceID(s), ~mistaken'
  PROVE  NumbersDiffer'
<1>1. /\ sending[s].number = counter /\ counter' = counter + 1 /\ packets' = packets
      /\ sending'[s].step = "numbered" /\ sending'[s].number = counter + 1
      /\ \A other \in Senders \ {s} : sending'[other] = sending[other]
  BY DEF TypeOK, NextOutgoingSequenceID, At
<1>2. counter \in Nat
  BY DEF TypeOK
<1>3. \A n \in 1 .. Len(packets) : packets[n].number \in 1 .. counter
  BY DEF NumbersDiffer
<1>4. \A t \in Senders : sending[t].number \in Nat
  BY DEF TypeOK, Sending, Idle, At
<1>5. ASSUME NEW t \in Senders, sending'[t].step = "numbered" PROVE NumberedSender(t)'
  <2>1. CASE t = s
    <3>1. \A other \in Senders \ {s} :
            sending[other].step = "numbered" => sending[other].number \in 1 .. counter
      BY DEF NumbersDiffer, NumberedSender
    <3>2. QED
      BY <1>1, <1>2, <1>3, <1>4, <2>1, <3>1 DEF NumberedSender
  <2>2. CASE t # s
    <3>1. NumberedSender(t)
      BY <1>1, <1>5, <2>2 DEF NumbersDiffer
    <3>2. QED
      BY <1>1, <1>2, <1>4, <2>2, <3>1 DEF NumberedSender
  <2>3. QED
    BY <2>1, <2>2
<1>6. \A n \in 1 .. Len(packets) : packets[n].number \in 1 .. counter + 1
  BY <1>2, <1>3
<1>7. QED
  BY <1>1, <1>5, <1>6 DEF NumbersDiffer

\* A packet carries the number its sender had.
LEMMA SendPacketKeepsNumbers ==
  ASSUME TypeOK, NumbersDiffer, NEW s \in Senders, SendPacket(s)
  PROVE  NumbersDiffer'
<1> DEFINE p == Len(packets) + 1
<1>1. /\ Len(packets) \in Nat /\ Len(packets') = p
      /\ \A i \in 1 .. Len(packets) : packets'[i] = packets[i]
      /\ packets'[p].number = sending[s].number
  BY PacketSent
<1>2. /\ NumberedSender(s) /\ counter' = counter
      /\ \A other \in Senders \ {s} : sending'[other] = sending[other]
  BY DEF SendPacket, NumbersDiffer, TypeOK
<1>3. sending'[s].step # "numbered"
  BY DEF SendPacket, TypeOK, Idle, At
<1> HIDE DEF p
<1>4. \A i \in 1 .. p : i = p \/ i \in 1 .. Len(packets)
  BY <1>1 DEF p
<1>5. \A i \in 1 .. p : packets'[i].number \in 1 .. counter
  BY <1>1, <1>2, <1>4 DEF NumbersDiffer, NumberedSender
<1>6. \A m, n \in 1 .. p : m # n => packets'[m].number # packets'[n].number
  <2> SUFFICES ASSUME NEW m \in 1 .. p, NEW n \in 1 .. p, m # n
               PROVE  packets'[m].number # packets'[n].number
    OBVIOUS
  <2>1. CASE m = p
    BY <1>1, <1>2, <1>4, <2>1 DEF NumberedSender
  <2>2. CASE n = p
    BY <1>1, <1>2, <1>4, <2>2 DEF NumberedSender
  <2>3. CASE m # p /\ n # p
    BY <1>1, <1>4, <2>3 DEF NumbersDiffer
  <2>4. QED
    BY <2>1, <2>2, <2>3
<1>7. ASSUME NEW t \in Senders, sending'[t].step = "numbered" PROVE NumberedSender(t)'
  <2>1. t # s /\ sending'[t] = sending[t]
    BY <1>2, <1>3, <1>7
  <2>2. NumberedSender(t)
    BY <1>7, <2>1 DEF NumbersDiffer
  <2>3. \A i \in 1 .. p : packets'[i].number # sending[t].number
    <3>1. sending[s].number # sending[t].number
      BY <2>1, <2>2 DEF SendPacket, NumberedSender
    <3>2. QED
      BY <1>1, <1>4, <2>2, <3>1 DEF NumberedSender
  <2>4. \A other \in Senders \ {t} : sending'[other].step = "numbered" =>
          sending[other].step = "numbered" /\ sending'[other] = sending[other]
    BY <1>2, <1>3
  <2>5. QED
    BY <1>1, <1>2, <2>1, <2>2, <2>3, <2>4 DEF NumberedSender
<1>8. QED
  BY <1>1, <1>2, <1>5, <1>6, <1>7 DEF NumbersDiffer

\* A mistake once made is not forgotten.
LEMMA MistakesStay == TypeOK /\ [Next]_vars /\ ~mistaken' => ~mistaken
<1> SUFFICES ASSUME TypeOK, [Next]_vars, ~mistaken' PROVE ~mistaken
  OBVIOUS
<1>1. CASE \E s \in Senders : SenderStep(s) \/ \E m \in Messages : Send(s, m)
  BY <1>1 DEF SenderStep, ReadCounter, NextOutgoingSequenceID, SendPacket, Send
<1>2. CASE \E n \in 1 .. Len(packets) : Timeout(n) \/ ReceiveAck(n) \/ Arrive(n)
  BY <1>2 DEF Timeout, ReceiveAck, Arrive
<1>3. CASE \E k \in 1 .. counter : ReceiveMultiAck(k)
  BY <1>3 DEF ReceiveMultiAck
<1>4. CASE GetNextToDispatch \/ Dispatch \/ CleanupConnection \/ CleanupReceiver \/ UNCHANGED vars
  BY <1>4 DEF GetNextToDispatch, Dispatch, CleanupConnection, CleanupReceiver, vars
<1>5. QED
  BY <1>1, <1>2, <1>3, <1>4 DEF Next

\* As long as no mistake is made, every step keeps the numbers apart.
LEMMA NextKeepsNumbers ==
  ASSUME TypeOK, NumbersDiffer, [Next]_vars, ~mistaken'
  PROVE  NumbersDiffer'
<1>1. ASSUME NEW s \in Senders, ReadCounter(s) \/ \E m \in Messages : Send(s, m)
      PROVE  NumbersDiffer'
  <2>1. /\ sending'[s].step # "numbered" /\ UNCHANGED <<counter, packets>>
        /\ \A other \in Senders \ {s} : sending'[other] = sending[other]
    BY <1>1 DEF TypeOK, ReadCounter, Send, At
  <2>2. QED
    BY <2>1, UnnumberedKeepsNumbers
<1>2. CASE \E s \in Senders : SenderStep(s) \/ \E m \in Messages : Send(s, m)
  BY <1>1, <1>2, NumberingKeepsNumbers, SendPacketKeepsNumbers DEF SenderStep
<1>3. CASE UNCHANGED <<sending, counter, packets>>
  BY <1>3 DEF NumbersDiffer, NumberedSender
<1>4. \/ \E s \in Senders : SenderStep(s) \/ \E m \in Messages : Send(s, m)
      \/ UNCHANGED <<sending, counter, packets>>
  BY DEF Next, Timeout, ReceiveAck, ReceiveMultiAck, Arrive, GetNextToDispatch, Dispatch,
         CleanupConnection, CleanupReceiver, vars, senderVars
<1>5. QED
  BY <1>2, <1>3, <1>4

\* A packet is remembered, with its timer.
IsPending(n) ==
  /\ n \in DOMAIN timers
  /\ IDOf(n) \in DOMAIN pending
  /\ pending[IDOf(n)] = n

\* What is to be shown, packet by packet.
LEMMA MissingPending ==
  MissingPacketsArePending <=> (connected /\ ~mistaken => \A n \in Missing : IsPending(n))
BY DEF MissingPacketsArePending, Missing, IsPending

\* And after a step.
LEMMA MissingPendingNext ==
  MissingPacketsArePending' <=> (connected' /\ ~mistaken' => \A n \in Missing' : IsPending(n)')
BY DEF MissingPacketsArePending, Missing, IsPending

\* A packet sent is remembered, and takes the place of none that was.
LEMMA SendPacketKeepsPending ==
  ASSUME SenderInv, NEW s \in Senders, SendPacket(s)
  PROVE  MissingPacketsArePending'
<1> DEFINE p == Len(packets) + 1
           id == SequenceID(sending[s].number)
<1>1. /\ Len(packets) \in Nat /\ Len(packets') = p
      /\ \A i \in 1 .. Len(packets) : packets'[i] = packets[i]
      /\ packets'[p].number = sending[s].number
  BY PacketSent DEF SenderInv
<1>2. /\ pending' = With(pending, id, p) /\ timers' = With(timers, p, 1)
      /\ connected' = connected /\ arrived' = arrived
      /\ mistaken' = (mistaken \/ id \in DOMAIN pending)
  BY DEF SendPacket, receiverVars
<1>3. /\ \A i \in 1 .. Len(packets) : IDOf(i)' = IDOf(i)
      /\ \A i \in 1 .. p : i = p => IDOf(i)' = id
  BY <1>1 DEF IDOf
<1> HIDE DEF p, id
<1>4. ASSUME connected, ~mistaken', NEW n \in Missing' PROVE IsPending(n)'
  <2>1. n = p \/ n \in Missing
    BY <1>1, <1>2 DEF Missing, p
  <2>2. CASE n = p
    <3>1. IDOf(n)' = id
      BY <1>1, <1>3, <1>4, <2>2 DEF Missing
    <3>2. QED
      BY <1>2, <2>2, <3>1 DEF IsPending, With
  <2>3. CASE n \in Missing /\ n # p
    <3>1. IsPending(n) /\ id \notin DOMAIN pending
      BY <1>2, <1>4, <2>3, MissingPending DEF SenderInv
    <3>2. IDOf(n)' = IDOf(n)
      BY <1>3, <2>3 DEF Missing
    <3>3. QED
      BY <1>2, <3>1, <3>2 DEF IsPending, With
  <2>4. QED
    BY <2>1, <2>2, <2>3
<1>5. QED
  BY <1>2, <1>4, MissingPendingNext

\* A timer is only dropped with its packet acknowledged or the connection closed.
LEMMA TimeoutKeepsPending ==
  ASSUME SenderInv, NEW n \in 1 .. Len(packets), Timeout(n)
  PROVE  MissingPacketsArePending'
<1>1. UNCHANGED <<packets, arrived, mistaken>>
  BY DEF Timeout, receiverVars
<1>2. CASE connected' = FALSE
  BY <1>2 DEF MissingPacketsArePending
<1>3. CASE timers' = [timers EXCEPT ![n] = @ + 1] /\ UNCHANGED <<pending, connected>>
  BY <1>1, <1>3 DEF SenderInv, MissingPacketsArePending, IDOf
<1>4. CASE /\ IDOf(n) \notin DOMAIN pending
           /\ timers' = Without(timers, n) /\ UNCHANGED <<pending, connected>>
  BY <1>1, <1>4 DEF SenderInv, MissingPacketsArePending, Without, IDOf
<1>5. QED
  BY <1>2, <1>3, <1>4 DEF Timeout, SenderEnds

\* An acknowledgment forgets the packet it speaks of, which has arrived.
LEMMA ReceiveAckKeepsPending ==
  ASSUME SenderInv, NEW n \in 1 .. Len(packets), ReceiveAck(n)
  PROVE  MissingPacketsArePending'
<1>1. /\ n \in arrived
      /\ pending' = Without(pending, IDOf(n))
      /\ mistaken' = (mistaken \/ (IDOf(n) \in DOMAIN pending /\ pending[IDOf(n)] # n))
      /\ UNCHANGED <<packets, timers, connected, arrived>>
  BY DEF ReceiveAck, receiverVars
<1>2. ASSUME connected, ~mistaken', NEW m \in Missing PROVE IsPending(m)'
  <2>1. IsPending(m) /\ m # n
    BY <1>1, <1>2, MissingPending DEF SenderInv, Missing
  <2>2. IDOf(m) # IDOf(n)
    BY <1>1, <1>2, <2>1 DEF IsPending
  <2>3. IDOf(m)' = IDOf(m)
    BY <1>1 DEF IDOf
  <2>4. QED
    BY <1>1, <2>1, <2>2, <2>3 DEF IsPending, Without
<1>3. Missing' = Missing
  BY <1>1 DEF Missing
<1>4. QED
  BY <1>1, <1>2, <1>3, MissingPendingNext

\* So does an aggregate one: what it forgets has a number it speaks of.
LEMMA ReceiveMultiAckKeepsPending ==
  ASSUME SenderInv, NEW k \in 1 .. counter, ReceiveMultiAck(k)
  PROVE  MissingPacketsArePending'
<1>1. /\ AllArrived(k)
      /\ pending' = [i \in {i \in DOMAIN pending : i > SequenceID(k)} |-> pending[i]]
      /\ mistaken' = (mistaken \/ Wrapped(k))
      /\ UNCHANGED <<packets, timers, connected, arrived>>
  BY DEF ReceiveMultiAck, receiverVars
<1>2. ASSUME connected, ~mistaken', NEW m \in Missing PROVE IsPending(m)'
  <2>1. IsPending(m) /\ NumbersDiffer /\ m \in 1 .. Len(packets) /\ m \notin arrived
    BY <1>1, <1>2, MissingPending DEF SenderInv, Missing
  <2>2. packets[m].number \in Nat /\ IDOf(m) \in 0 .. Modulus - 1 /\ k \in Nat
    BY <2>1, PacketType DEF SenderInv, TypeOK
  <2>3. ~ (packets[m].number \in 1 .. k)
    <3>1. \A n \in arrived : n \in 1 .. Len(packets)
      BY DEF SenderInv, TypeOK
    <3>2. QED
      BY <1>1, <2>1, <3>1 DEF AllArrived, NumbersDiffer
  <2>4. CASE packets[m].number > k
    <3>1. ~ (IDOf(m) <= SequenceID(k))
      BY <1>1, <1>2, <2>1, <2>4 DEF Wrapped, IsPending
    <3>2. IDOf(m) > SequenceID(k)
      <4>1. SequenceID(k) \in Int /\ IDOf(m) \in Int /\ Modulus \in Nat
        BY <2>2, SequenceIDs, StreamAssumption DEF StreamAssumption
      <4>2. QED
        BY <3>1, <4>1
    <3>3. IDOf(m)' = IDOf(m)
      BY <1>1 DEF IDOf
    <3>4. QED
      BY <1>1, <2>1, <3>2, <3>3 DEF IsPending
  <2>5. packets[m].number > 0
    BY <2>1 DEF NumbersDiffer
  <2>6. QED
    BY <2>2, <2>3, <2>4, <2>5
<1>3. Missing' = Missing
  BY <1>1 DEF Missing
<1>4. QED
  BY <1>1, <1>2, <1>3, MissingPendingNext

\* Every step keeps the invariant of the sender's side.
LEMMA NextKeepsSenderInv == SenderInv /\ [Next]_vars => SenderInv'
<1> SUFFICES ASSUME SenderInv, [Next]_vars PROVE SenderInv'
  OBVIOUS
<1>1. TypeOK' /\ (~mistaken' => ~mistaken)
  BY NextKeepsTypeOK, MistakesStay DEF SenderInv
<1>2. ~mistaken' => NumbersDiffer'
  BY <1>1, NextKeepsNumbers DEF SenderInv
<1>3. MissingPacketsArePending'
  <2>1. CASE \E s \in Senders : SendPacket(s)
    BY <2>1, SendPacketKeepsPending
  <2>2. CASE \E n \in 1 .. Len(packets) : Timeout(n) \/ ReceiveAck(n)
    BY <2>2, TimeoutKeepsPending, ReceiveAckKeepsPending
  <2>3. CASE \E k \in 1 .. counter : ReceiveMultiAck(k)
    BY <2>3, ReceiveMultiAckKeepsPending
  <2>4. CASE connected' = FALSE
    BY <2>4 DEF MissingPacketsArePending
  <2>5. CASE UNCHANGED <<packets, pending, timers, connected>> /\ arrived \subseteq arrived'
    <3>1. Missing' \subseteq Missing
      BY <2>5 DEF Missing
    <3>2. \A n \in Missing : IsPending(n) => IsPending(n)'
      BY <2>5 DEF IsPending, IDOf
    <3>3. connected' /\ ~mistaken' => \A n \in Missing' : IsPending(n)'
      BY <1>1, <2>5, <3>1, <3>2, MissingPending DEF SenderInv
    <3>4. QED
      BY <3>3, MissingPendingNext
  <2>6. \/ \E s \in Senders : SendPacket(s)
        \/ \E n \in 1 .. Len(packets) : Timeout(n) \/ ReceiveAck(n)
        \/ \E k \in 1 .. counter : ReceiveMultiAck(k)
        \/ connected' = FALSE
        \/ UNCHANGED <<packets, pending, timers, connected>> /\ arrived \subseteq arrived'
    BY DEF Next, SenderStep, ReadCounter, NextOutgoingSequenceID, Send, Arrive,
           GetNextToDispatch, Dispatch, CleanupConnection, CleanupReceiver, SenderEnds,
           vars, senderVars, receiverVars
  <2>7. QED
    BY <2>1, <2>2, <2>3, <2>4, <2>5, <2>6
<1>4. QED
  BY <1>1, <1>2, <1>3 DEF SenderInv

\* It holds in every state that is reached.
LEMMA SenderInvariance == Spec => []SenderInv
<1>1. Init => SenderInv
  <2> SUFFICES ASSUME Init PROVE SenderInv
    OBVIOUS
  <2>1. Len(packets) = 0 /\ \A s \in Senders : sending[s].step = "pausing"
    BY EmptySeq DEF Init, Idle, At
  <2>2. QED
    BY <2>1, InitHasType DEF SenderInv, NumbersDiffer, MissingPacketsArePending
<1>2. SenderInv /\ [Next]_vars => SenderInv'
  BY NextKeepsSenderInv
<1>3. QED
  BY <1>1, <1>2, PTL DEF Spec

\* As long as no sequence ID is taken for another packet's, a packet that is
\* missing is remembered under its own and its timer runs, so it will be sent
\* again: whichever goroutines send at once, no acknowledgment, aggregate or
\* single, late or repeated, makes the sender forget it.
THEOREM NothingForgotten == Spec => []MissingPacketsArePending
<1>1. SenderInv => MissingPacketsArePending
  BY DEF SenderInv
<1>2. QED
  BY <1>1, SenderInvariance, PTL

-----------------------------------------------------------------------------
(***************************************************************************)
(* The stream is a reliable channel while it is intact.  As long as one    *)
(* goroutine sends at a time and no mistake is made, packet n has number n *)
(* and carries the fragment that follows that of packet n - 1; and as long *)
(* as the receiver listens, what it takes from the queue is the next one.  *)
(***************************************************************************)

\* A fragment's place: its message, and its part of it.
Place(message, part) == [message |-> message, part |-> part]

PlaceOf(f) == Place(f.message, f.part)

\* The place after that of fragment f, and the one after packet k.
Successor(f) ==
  IF f.part = Size[sent[f.message]] THEN Place(f.message + 1, 1) ELSE Place(f.message, f.part + 1)

Following(k) == IF k = 0 THEN Place(1, 1) ELSE Successor(packets[k])

IsFragmentOfSent(f) ==
  f.message \in 1 .. Len(sent) /\ f.part \in 1 .. Size[sent[f.message]]

\* Packets carry the fragments of the messages sent, in order, and are numbered
\* in that order.
PacketsInOrder ==
  \A k \in 1 .. Len(packets) :
    /\ packets[k].number = k
    /\ PlaceOf(packets[k]) = Following(k - 1)
    /\ IsFragmentOfSent(packets[k])

\* What a goroutine in the middle of a message is at.
SendsNext(s) ==
  /\ PlaceOf(sending[s]) = Following(Len(packets))
  /\ IsFragmentOfSent(sending[s])
  /\ sending[s].message = Len(sent)
  /\ sending[s].step = "numbered" => counter = Len(packets) + 1 /\ sending[s].number = counter
  /\ sending[s].step # "numbered" => counter = Len(packets)

\* One goroutine at most is in the middle of a message, the last one.
OneSends ==
  /\ \A s \in Senders : sending[s] # Idle =>
       SendsNext(s) /\ \A other \in Senders \ {s} : sending[other] = Idle
  /\ (\A s \in Senders : sending[s] = Idle) =>
       Following(Len(packets)) = Place(Len(sent) + 1, 1) /\ counter = Len(packets)

Orderly == ~overlapped /\ ~mistaken

\* Packets are queued under their own sequence IDs.
QueuedUnderOwn == \A i \in DOMAIN queue : i = IDOf(queue[i])

\* The packet at hand is the next one.
InTurn ==
  /\ dispatched <= Len(packets)
  /\ picked # 0 => picked = dispatched + 1 /\ picked <= Len(packets)

\* What has been received, and what is in the buffer, is what was dispatched.
Reassembled ==
  /\ Len(received) = Following(dispatched).message - 1
  /\ Len(buffer) = Following(dispatched).part - 1
  /\ \A i \in 1 .. Len(buffer) : buffer[i] = Place(Following(dispatched).message, i)

ChannelInv ==
  /\ TypeOK /\ QueuedUnderOwn
  /\ Orderly => PacketsInOrder /\ OneSends
  /\ Intact => InTurn /\ Reassembled

\* Messages sent and packets sent stay where they are in the sequences.
Kept ==
  /\ Len(sent) <= Len(sent') /\ \A j \in 1 .. Len(sent) : sent'[j] = sent[j]
  /\ Len(packets) <= Len(packets')
  /\ \A k \in 1 .. Len(packets) : packets'[k] = packets[k]

\* Messages and packets are only ever added at the end.
LEMMA NextKeeps ==
  ASSUME TypeOK, [Next]_vars
  PROVE  Kept /\ Len(sent') \in Nat /\ Len(packets') \in Nat
<1>1. Len(sent) \in Nat /\ Len(packets) \in Nat
  BY LenProperties DEF TypeOK
<1>2. CASE \E s \in Senders, m \in Messages : Send(s, m)
  BY <1>1, <1>2, AppendProperties DEF Kept, TypeOK, Send
<1>3. CASE \E s \in Senders : SendPacket(s)
  <2>1. PICK s \in Senders : SendPacket(s)
    BY <1>3
  <2>2. sent' = sent
    BY <2>1 DEF SendPacket
  <2>3. /\ Len(packets') = Len(packets) + 1
        /\ \A i \in 1 .. Len(packets) : packets'[i] = packets[i]
    BY <2>1, PacketSent
  <2>4. QED
    BY <1>1, <2>2, <2>3 DEF Kept
<1>4. CASE UNCHANGED <<sent, packets>>
  BY <1>1, <1>4 DEF Kept
<1>5. \/ UNCHANGED <<sent, packets>>
      \/ \E s \in Senders : SendPacket(s) \/ \E m \in Messages : Send(s, m)
  BY DEF Next, SenderStep, ReadCounter, NextOutgoingSequenceID, Timeout, ReceiveAck,
         ReceiveMultiAck, Arrive, GetNextToDispatch, Dispatch, CleanupConnection,
         CleanupReceiver, vars, senderVars
<1>6. QED
  BY <1>2, <1>3, <1>4, <1>5

\* What no longer holds was not to be had before: an end, an overlap, a mistake
\* and a message too long stay.
LEMMA IntactBefore ==
  ASSUME TypeOK, [Next]_vars, Kept, Len(sent') \in Nat
  PROVE  (Orderly' => Orderly) /\ (Intact' => Intact)
<1>1. (~mistaken' => ~mistaken) /\ TypeOK'
  BY MistakesStay, NextKeepsTypeOK
<1>2. ~overlapped' => ~overlapped
  BY DEF Next, SenderStep, ReadCounter, NextOutgoingSequenceID, SendPacket, Send, Timeout,
         ReceiveAck, ReceiveMultiAck, Arrive, GetNextToDispatch, Dispatch, CleanupConnection,
         CleanupReceiver, vars, senderVars
<1>3. listening' => listening
  BY DEF Next, SenderStep, ReadCounter, NextOutgoingSequenceID, SendPacket, Send, Timeout,
         ReceiveAck, ReceiveMultiAck, Arrive, GetNextToDispatch, Dispatch, CleanupConnection,
         CleanupReceiver, vars, receiverVars
<1>4. MessagesFit' => MessagesFit
  <2>1. Len(sent) \in Nat
    BY LenProperties DEF TypeOK
  <2>2. QED
    BY <2>1 DEF MessagesFit, Kept
<1>5. QED
  BY <1>1, <1>2, <1>3, <1>4 DEF Orderly, Intact

\* What is a fragment of a message sent, and what follows it, stays so.
LEMMA FollowingIsKept ==
  ASSUME TypeOK, PacketsInOrder, Kept, Len(sent') \in Nat
  PROVE  /\ \A f : IsFragmentOfSent(f) => IsFragmentOfSent(f)' /\ Successor(f)' = Successor(f)
         /\ \A k \in 0 .. Len(packets) : Following(k)' = Following(k)
<1>1. Len(sent) \in Nat /\ Len(packets) \in Nat
  BY LenProperties DEF TypeOK
<1>2. ASSUME NEW f, IsFragmentOfSent(f)
      PROVE  IsFragmentOfSent(f)' /\ Successor(f)' = Successor(f)
  BY <1>1, <1>2 DEF IsFragmentOfSent, Successor, Kept
<1>3. ASSUME NEW k \in 0 .. Len(packets) PROVE Following(k)' = Following(k)
  <2>1. CASE k = 0
    BY <2>1 DEF Following
  <2>2. CASE k # 0
    <3>1. k \in 1 .. Len(packets) /\ packets'[k] = packets[k]
      BY <1>1, <2>2 DEF Kept
    <3>2. Successor(packets[k])' = Successor(packets[k])
      <4>1. IsFragmentOfSent(packets[k])
        BY <3>1 DEF PacketsInOrder
      <4>2. sent'[packets[k].message] = sent[packets[k].message]
        BY <4>1 DEF IsFragmentOfSent, Kept
      <4>3. QED
        BY <3>1, <4>2 DEF Successor
    <3>3. QED
      BY <2>2, <3>2 DEF Following
  <2>3. QED
    BY <2>1, <2>2
<1>4. QED
  BY <1>2, <1>3

-----------------------------------------------------------------------------
(***************************************************************************)
(* The sender's side: packets in order.                                    *)
(***************************************************************************)

OrderInv == TypeOK /\ PacketsInOrder /\ OneSends

\* A message begun continues where the one before it ended.
LEMMA SendKeepsOrder ==
  ASSUME OrderInv, NEW s \in Senders, NEW m \in Messages,
         Send(s, m), ~overlapped', Kept, Len(sent') \in Nat
  PROVE  PacketsInOrder' /\ OneSends'
<1> USE DEF OrderInv
<1>1. /\ packets' = packets /\ counter' = counter
      /\ \A other \in Senders : sending[other] = Idle
      /\ sending' = [sending EXCEPT ![s] = At(Len(sent) + 1, 1, "pausing", 0)]
      /\ sent' = Append(sent, m)
  BY DEF Send
<1>2. Len(sent) \in Nat /\ Len(packets) \in Nat
  BY LenProperties DEF TypeOK
<1>3. Len(sent') = Len(sent) + 1 /\ sent'[Len(sent) + 1] = m
  BY <1>1, AppendProperties DEF TypeOK
<1>4. PacketsInOrder'
  <2> SUFFICES ASSUME NEW k \in 1 .. Len(packets)
               PROVE  /\ packets[k].number = k
                      /\ PlaceOf(packets[k]) = Following(k - 1)' /\ IsFragmentOfSent(packets[k])'
    BY <1>1 DEF PacketsInOrder, PlaceOf
  <2>1. /\ packets[k].number = k
        /\ PlaceOf(packets[k]) = Following(k - 1) /\ IsFragmentOfSent(packets[k])
    BY DEF PacketsInOrder
  <2>2. Following(k - 1)' = Following(k - 1)
    BY <1>2, FollowingIsKept
  <2>3. IsFragmentOfSent(packets[k])'
    BY <1>1, <1>2, <2>1 DEF IsFragmentOfSent, Kept
  <2>4. QED
    BY <2>1, <2>2, <2>3
<1>5. Following(Len(packets))' = Following(Len(packets))
  <2>1. \A k \in 0 .. Len(packets) : Following(k)' = Following(k)
    BY FollowingIsKept
  <2>2. \A k \in 0 .. Len(packets) :
          k = Len(packets) => Following(Len(packets))' = Following(k)'
    BY <1>1 DEF Following, Successor
  <2>3. QED
    BY <1>2, <2>1, <2>2
<1>6. /\ sending'[s] = At(Len(sent) + 1, 1, "pausing", 0)
      /\ \A other \in Senders \ {s} : sending'[other] = Idle
  BY <1>1 DEF TypeOK
<1>7. Following(Len(packets)) = Place(Len(sent) + 1, 1) /\ counter = Len(packets)
  BY <1>1 DEF OneSends
<1>8. 1 \in 1 .. Size[m]
  BY StreamAssumption DEF StreamAssumption
<1>9. /\ sending'[s].message = Len(sent) + 1 /\ sending'[s].part = 1
      /\ sending'[s].step = "pausing" /\ sending'[s] # Idle
  BY <1>2, <1>6 DEF Idle, At
<1>10. SendsNext(s)'
  <2>1. PlaceOf(sending[s])' = Following(Len(packets))'
    BY <1>5, <1>7, <1>9 DEF PlaceOf
  <2>2. IsFragmentOfSent(sending[s])'
    BY <1>2, <1>3, <1>8, <1>9 DEF IsFragmentOfSent
  <2>3. QED
    BY <1>1, <1>3, <1>7, <1>9, <2>1, <2>2 DEF SendsNext
<1>11. OneSends'
  BY <1>6, <1>9, <1>10 DEF OneSends
<1>12. QED
  BY <1>4, <1>11

\* Numbering moves nothing: the one goroutine that sends takes the next number.
LEMMA NumberingKeepsOrder ==
  ASSUME OrderInv, NEW s \in Senders,
         ReadCounter(s) \/ (NextOutgoingSequenceID(s) /\ ~mistaken')
  PROVE  PacketsInOrder' /\ OneSends'
<1> USE DEF OrderInv
<1>1. UNCHANGED <<sent, packets>>
  BY DEF ReadCounter, NextOutgoingSequenceID
<1>2. PacketsInOrder'
  BY <1>1 DEF PacketsInOrder, Following, Successor, IsFragmentOfSent, PlaceOf
<1>3. sending[s] # Idle
  BY DEF ReadCounter, NextOutgoingSequenceID, Idle, At
<1>4. SendsNext(s) /\ \A other \in Senders \ {s} : sending[other] = Idle
  BY <1>3 DEF OneSends
<1>5. Following(Len(packets))' = Following(Len(packets))
  BY <1>1 DEF Following, Successor
<1>6. sending[s].message \in Nat \ {0} /\ Len(packets) \in Nat
  BY <1>3, LenProperties DEF TypeOK, Sending
<1>7. /\ sending'[s].message = sending[s].message /\ sending'[s].part = sending[s].part
      /\ \A other \in Senders \ {s} : sending'[other] = Idle
      /\ \/ /\ sending'[s].step = "read" /\ sending[s].step = "pausing" /\ counter' = counter
         \/ /\ sending'[s].step = "numbered" /\ sending[s].step = "read"
            /\ sending'[s].number = counter + 1 /\ counter' = counter + 1
  <2>1. CASE ReadCounter(s)
    BY <1>4, <2>1 DEF ReadCounter, TypeOK, At
  <2>2. CASE NextOutgoingSequenceID(s) /\ ~mistaken'
    BY <1>4, <2>2 DEF NextOutgoingSequenceID, TypeOK, At
  <2>3. QED
    BY <2>1, <2>2
<1>8. sending'[s] # Idle
  BY <1>6, <1>7 DEF Idle, At
<1>9. SendsNext(s)'
  <2>1. IsFragmentOfSent(sending[s])' /\ PlaceOf(sending[s])' = PlaceOf(sending[s])
    BY <1>1, <1>4, <1>7 DEF SendsNext, IsFragmentOfSent, PlaceOf
  <2>2. counter = Len(packets)
    BY <1>4, <1>7 DEF SendsNext
  <2>3. QED
    BY <1>1, <1>4, <1>5, <1>6, <1>7, <2>1, <2>2 DEF SendsNext
<1>10. OneSends'
  BY <1>7, <1>8, <1>9 DEF OneSends
<1>11. QED
  BY <1>2, <1>10

\* The fragment sent is the one that follows, and its sender goes on to the next.
LEMMA SendPacketKeepsOrder ==
  ASSUME OrderInv, NEW s \in Senders, SendPacket(s), Kept, Len(sent') \in Nat
  PROVE  PacketsInOrder' /\ OneSends'
<1> DEFINE n == Len(packets) + 1
           fragment == sending[s]
<1>1. /\ Len(packets) \in Nat /\ Len(packets') = n
      /\ packets'[n].message = fragment.message /\ packets'[n].part = fragment.part
      /\ packets'[n].number = fragment.number
      /\ \A k \in 1 .. Len(packets) : packets'[k] = packets[k]
      /\ fragment \in Sending
  BY PacketSent DEF OrderInv
<1>2. /\ fragment.step = "numbered" /\ sent' = sent /\ counter' = counter
      /\ sending' = [sending EXCEPT ![s] =
           IF fragment.part = Size[sent[fragment.message]]
           THEN Idle ELSE At(fragment.message, fragment.part + 1, "pausing", 0)]
  BY DEF SendPacket
<1>3. SendsNext(s) /\ \A other \in Senders \ {s} : sending[other] = Idle
  BY <1>2 DEF OrderInv, OneSends, Idle, At
<1>4. /\ PlaceOf(fragment) = Following(Len(packets)) /\ IsFragmentOfSent(fragment)
      /\ fragment.message = Len(sent)
      /\ counter = n /\ fragment.number = n
  BY <1>2, <1>3 DEF SendsNext
<1>5. \A k \in 0 .. Len(packets) : Following(k)' = Following(k)
  BY FollowingIsKept DEF OrderInv
<1>6. PacketsInOrder'
  <2> SUFFICES ASSUME NEW k \in 1 .. n
               PROVE  /\ packets'[k].number = k
                      /\ PlaceOf(packets[k])' = Following(k - 1)'
                      /\ IsFragmentOfSent(packets[k])'
    BY <1>1 DEF PacketsInOrder
  <2>1. Following(k - 1)' = Following(k - 1)
    BY <1>1, <1>5
  <2>2. CASE k = n
    BY <1>1, <1>2, <1>4, <2>1, <2>2 DEF IsFragmentOfSent, PlaceOf
  <2>3. CASE k # n
    <3>1. k \in 1 .. Len(packets)
      BY <1>1, <2>3
    <3>2. QED
      BY <1>1, <1>2, <2>1, <3>1 DEF OrderInv, PacketsInOrder, IsFragmentOfSent, PlaceOf
  <2>4. QED
    BY <2>2, <2>3
<1>7. Following(Len(packets))' = Successor(fragment)
  <2>1. Successor(packets[Len(packets)])' = Successor(fragment)
    BY <1>1, <1>2 DEF Successor
  <2>2. Len(packets') # 0
    BY <1>1
  <2>3. QED
    BY <2>1, <2>2 DEF Following
<1>8. \A other \in Senders \ {s} : sending'[other] = Idle
  BY <1>2, <1>3 DEF OrderInv, TypeOK
<1>9. CASE fragment.part = Size[sent[fragment.message]]
  <2>1. sending'[s] = Idle
    BY <1>2, <1>9 DEF OrderInv, TypeOK
  <2>2. Successor(fragment) = Place(Len(sent) + 1, 1)
    BY <1>4, <1>9 DEF Successor
  <2>3. OneSends'
    BY <1>1, <1>2, <1>4, <1>7, <1>8, <2>1, <2>2 DEF OneSends
  <2>4. QED
    BY <1>6, <2>3
<1>10. CASE fragment.part # Size[sent[fragment.message]]
  <2> DEFINE next == At(fragment.message, fragment.part + 1, "pausing", 0)
  <2>1. sending'[s] = next
    BY <1>2, <1>10 DEF OrderInv, TypeOK
  <2>2. /\ next.message = fragment.message /\ next.part = fragment.part + 1
        /\ next.step = "pausing"
    BY DEF At
  <2>3. Size[sent[fragment.message]] \in Nat
    <3>1. sent[fragment.message] \in Messages
      BY <1>4, ElementOfSeq DEF OrderInv, TypeOK, IsFragmentOfSent
    <3>2. QED
      BY <3>1, StreamAssumption DEF StreamAssumption
  <2>4. IsFragmentOfSent(next)
    BY <1>4, <1>10, <2>2, <2>3 DEF IsFragmentOfSent
  <2>5. next # Idle
    BY <1>1, <2>2 DEF Idle, At, Sending
  <2> HIDE DEF next
  <2>6. SendsNext(s)'
    <3>1. PlaceOf(sending[s])' = Following(Len(packets))'
      BY <1>7, <1>10, <2>1, <2>2 DEF Successor, PlaceOf
    <3>2. IsFragmentOfSent(sending[s])'
      BY <1>2, <2>1, <2>4 DEF IsFragmentOfSent
    <3>3. QED
      BY <1>1, <1>2, <1>4, <2>1, <2>2, <3>1, <3>2 DEF SendsNext
  <2>7. OneSends'
    BY <1>8, <2>1, <2>5, <2>6 DEF OneSends
  <2>8. QED
    BY <1>6, <2>7
<1>11. QED
  BY <1>9, <1>10

\* Every step that is no overlap and no mistake keeps the order.
LEMMA NextKeepsOrder ==
  ASSUME OrderInv, [Next]_vars, Orderly', Kept, Len(sent') \in Nat
  PROVE  PacketsInOrder' /\ OneSends'
<1>1. CASE UNCHANGED <<sent, sending, counter, packets>>
  BY <1>1 DEF OrderInv, PacketsInOrder, OneSends, SendsNext, Following, Successor,
              IsFragmentOfSent, PlaceOf
<1>2. \/ UNCHANGED <<sent, sending, counter, packets>>
      \/ \E s \in Senders : SenderStep(s) \/ \E m \in Messages : Send(s, m)
  BY DEF Next, Timeout, ReceiveAck, ReceiveMultiAck, Arrive, GetNextToDispatch, Dispatch,
         CleanupConnection, CleanupReceiver, vars, senderVars
<1>3. ~overlapped' /\ ~mistaken'
  BY DEF Orderly
<1>4. QED
  BY <1>1, <1>2, <1>3, SendKeepsOrder, NumberingKeepsOrder, SendPacketKeepsOrder DEF SenderStep

-----------------------------------------------------------------------------
(***************************************************************************)
(* The receiver's side: the queue, and reassembling.                       *)
(***************************************************************************)

\* A packet is queued under the ID it carries, and carries it for good.
LEMMA NextKeepsQueued ==
  ASSUME TypeOK, QueuedUnderOwn, [Next]_vars, Kept
  PROVE  QueuedUnderOwn'
<1>1. CASE queue' = queue
  <2> SUFFICES ASSUME NEW i \in DOMAIN queue PROVE i = SequenceID(packets'[queue[i]].number)
    BY <1>1 DEF QueuedUnderOwn, IDOf
  <2>1. queue[i] \in 1 .. Len(packets) /\ i = SequenceID(packets[queue[i]].number)
    BY DEF TypeOK, QueuedUnderOwn, IDOf
  <2>2. packets'[queue[i]] = packets[queue[i]]
    BY <2>1 DEF Kept
  <2>3. QED
    BY <2>1, <2>2
<1>2. CASE \E n \in 1 .. Len(packets) : Arrive(n)
  <2>1. PICK n \in 1 .. Len(packets) : Arrive(n)
    BY <1>2
  <2>2. queue' = With(queue, IDOf(n), n) /\ packets' = packets
    BY <2>1 DEF Arrive, senderVars
  <2>3. QED
    BY <2>2 DEF QueuedUnderOwn, With, IDOf
<1>3. CASE CleanupReceiver
  BY <1>3 DEF CleanupReceiver, QueuedUnderOwn
<1>4. CASE Dispatch
  <2>1. queue' = Without(queue, IDOf(picked)) /\ packets' = packets
    BY <1>4 DEF Dispatch, senderVars
  <2>2. QED
    BY <2>1 DEF QueuedUnderOwn, Without, IDOf
<1>5. \/ queue' = queue
      \/ \E n \in 1 .. Len(packets) : Arrive(n)
      \/ CleanupReceiver \/ Dispatch
  BY DEF Next, SenderStep, ReadCounter, NextOutgoingSequenceID, SendPacket, Send, Timeout,
         ReceiveAck, ReceiveMultiAck, GetNextToDispatch, CleanupConnection, vars, receiverVars
<1>6. QED
  BY <1>1, <1>2, <1>3, <1>4, <1>5

\* The packet that a handler's loop takes is the next one.
LEMMA PickInTurn ==
  ASSUME TypeOK, QueuedUnderOwn, PacketsInOrder, InTurn, GetNextToDispatch, ~mistaken'
  PROVE  InTurn'
<1> DEFINE n == queue[SequenceID(dispatched + 1)]
<1>1. /\ SequenceID(dispatched + 1) \in DOMAIN queue /\ picked' = n
      /\ mistaken' = (mistaken \/ (IDOf(n) = SequenceID(dispatched + 1)
                                   /\ packets[n].number # dispatched + 1))
      /\ UNCHANGED <<dispatched, packets>>
  BY DEF GetNextToDispatch, Dispatchable, senderVars
<1>2. n \in 1 .. Len(packets) /\ IDOf(n) = SequenceID(dispatched + 1)
  BY <1>1 DEF TypeOK, QueuedUnderOwn
<1> HIDE DEF n
<1>3. n = dispatched + 1
  BY <1>1, <1>2 DEF PacketsInOrder
<1>4. Len(packets) \in Nat
  BY LenProperties DEF TypeOK
<1>5. QED
  BY <1>1, <1>2, <1>3, <1>4 DEF InTurn

\* The last fragment of a message that fits, and no other, carries fragment ID 0.
LEMMA LastFragmentIsMarked ==
  ASSUME TypeOK, MessagesFit, NEW f, IsFragmentOfSent(f)
  PROVE  FragmentID(f) = 0 <=> f.part = Size[sent[f.message]]
<1>1. sent[f.message] \in Messages /\ Size[sent[f.message]] <= FragmentIDs
  BY ElementOfSeq DEF TypeOK, IsFragmentOfSent, MessagesFit
<1> DEFINE size == Size[sent[f.message]]
           part == f.part
<1>2. /\ size \in Nat /\ FragmentIDs \in Nat \ {0} /\ size <= FragmentIDs
      /\ part \in 1 .. size
  BY <1>1, StreamAssumption DEF StreamAssumption, IsFragmentOfSent
<1> HIDE DEF size, part
<1>3. ASSUME part # size PROVE part % FragmentIDs # 0
  <2>1. part \in Nat /\ 0 < part /\ part < FragmentIDs
    BY <1>2, <1>3
  <2>2. part % FragmentIDs = part
    BY <1>2, <2>1
  <2>3. QED
    BY <2>1, <2>2
<1>4. QED
  BY <1>3 DEF FragmentID, size, part

\* The loop takes the next fragment: it completes the buffer to the message that
\* is next to be received, or to a longer part of it.
LEMMA DispatchReassembles ==
  ASSUME TypeOK, PacketsInOrder, InTurn, Reassembled, MessagesFit, listening, Dispatch
  PROVE  /\ InTurn' /\ Reassembled'
         /\ \/ received' = received
            \/ /\ Len(received) < Len(sent)
               /\ received' = Append(received, sent[Len(received) + 1])
<1> DEFINE d == dispatched + 1
           f == packets[d]
           fragment == Deciphered(picked)
           collected == Append(buffer, fragment)
           j == f.message
<1>1. picked = d /\ d \in 1 .. Len(packets) /\ Len(packets) \in Nat
  BY LenProperties DEF Dispatch, InTurn, TypeOK
<1>2. /\ IF FragmentID(f) = 0
         THEN received' = Append(received, Assembled(collected)) /\ buffer' = << >>
         ELSE buffer' = collected /\ received' = received
      /\ dispatched' = d /\ picked' = 0 /\ UNCHANGED <<sent, packets>>
  BY <1>1 DEF Dispatch, senderVars
<1>3. dispatched \in 0 .. Len(packets) /\ d - 1 = dispatched /\ d # 0
  BY <1>1 DEF TypeOK
<1>4. PlaceOf(f) = Following(dispatched) /\ IsFragmentOfSent(f)
  BY <1>1, <1>3 DEF PacketsInOrder
<1>5. f.message \in Nat \ {0} /\ f.part \in Nat \ {0} /\ fragment = Place(f.message, f.part)
  BY <1>1, PacketType DEF Packet, Deciphered, Place
<1>6. Following(dispatched)' = Successor(f)
  BY <1>2, <1>3 DEF Following, Successor
<1>7. Following(dispatched).message = j /\ Following(dispatched).part = f.part
  BY <1>4 DEF PlaceOf, Place
<1>8. /\ Len(received) = j - 1 /\ j \in 1 .. Len(sent)
      /\ Len(buffer) = f.part - 1
      /\ \A i \in 1 .. Len(buffer) : buffer[i] = Place(j, i)
  BY <1>4, <1>7 DEF Reassembled, IsFragmentOfSent
<1>9. FragmentID(f) = 0 <=> f.part = Size[sent[j]]
  BY <1>4, LastFragmentIsMarked
<1>10. /\ buffer \in Seq(Fragment \cup {Noise}) /\ received \in Seq(Messages \cup {Garbled})
       /\ fragment \in Fragment \cup {Noise}
  BY <1>5 DEF TypeOK, Fragment, Place
<1>11. InTurn'
  BY <1>1, <1>2 DEF InTurn
<1> HIDE DEF d, f, fragment
<1>12. /\ collected \in Seq(Fragment \cup {Noise}) /\ Len(collected) = f.part
       /\ \A i \in 1 .. Len(buffer) : collected[i] = buffer[i]
       /\ collected[f.part] = fragment
  BY <1>5, <1>8, <1>10, AppendProperties
<1>13. \A i \in 1 .. f.part : collected[i] = Place(j, i)
  BY <1>5, <1>8, <1>12
<1> HIDE DEF collected
<1>14. CASE f.part = Size[sent[j]]
  <2>1. collected = FragmentsOf(j)
    <3>1. collected = [i \in 1 .. f.part |-> collected[i]]
      BY <1>12, LenProperties
    <3>2. QED
      BY <1>13, <1>14, <3>1 DEF FragmentsOf, Place
  <2>2. Assembled(collected) = sent[j]
    <3>1. 1 \in 1 .. f.part
      BY <1>5
    <3>2. collected[1] = Place(j, 1)
      BY <1>13, <3>1
    <3>3. collected[1].message = j
      BY <3>2 DEF Place
    <3>4. QED
      BY <1>8, <2>1, <3>3 DEF Assembled
  <2>3. received' = Append(received, sent[j]) /\ buffer' = << >>
    BY <1>2, <1>9, <1>14, <2>2
  <2>4. Successor(f) = Place(j + 1, 1)
    BY <1>14 DEF Successor
  <2>5. Len(received') = j
    <3>1. sent[j] \in Messages \cup {Garbled}
      BY <1>8, ElementOfSeq DEF TypeOK
    <3>2. QED
      BY <1>5, <1>8, <1>10, <2>3, <3>1, AppendProperties
  <2>6. Len(buffer') = 0
    BY <2>3, EmptySeq
  <2>7. Reassembled'
    <3>1. Following(dispatched)'.message = j + 1 /\ Following(dispatched)'.part = 1
      BY <1>6, <2>4 DEF Place
    <3>2. QED
      BY <1>5, <2>5, <2>6, <3>1 DEF Reassembled
  <2>8. Len(received) < Len(sent) /\ j = Len(received) + 1
    <3>1. Len(sent) \in Nat
      BY LenProperties DEF TypeOK
    <3>2. QED
      BY <1>5, <1>8, <3>1
  <2>9. QED
    BY <1>11, <2>3, <2>7, <2>8
<1>15. CASE f.part # Size[sent[j]]
  <2>1. received' = received /\ buffer' = collected
    BY <1>2, <1>9, <1>15
  <2>2. Successor(f) = Place(j, f.part + 1)
    BY <1>15 DEF Successor
  <2>3. Following(dispatched)'.message = j /\ Following(dispatched)'.part = f.part + 1
    BY <1>6, <2>2 DEF Place
  <2>4. Reassembled'
    BY <1>5, <1>8, <1>12, <1>13, <2>1, <2>3 DEF Reassembled
  <2>5. QED
    BY <1>11, <2>1, <2>4
<1>16. QED
  BY <1>14, <1>15

\* The other steps leave what was received and collected alone.
LEMMA OthersKeepReassembled ==
  ASSUME TypeOK, PacketsInOrder, InTurn, Reassembled, Kept, Len(sent') \in Nat,
         Len(packets') \in Nat, UNCHANGED <<received, buffer, dispatched>>
  PROVE  Reassembled' /\ (picked' = picked => InTurn')
<1>1. dispatched \in 0 .. Len(packets) /\ Len(packets) \in Nat
  BY LenProperties DEF TypeOK, InTurn
<1>2. \A k \in 0 .. Len(packets) : Following(k)' = Following(k)
  BY FollowingIsKept
<1>3. \A k \in 0 .. Len(packets) : k = dispatched => Following(dispatched)' = Following(k)'
  BY DEF Following, Successor
<1>4. Following(dispatched)' = Following(dispatched)
  BY <1>1, <1>2, <1>3
<1>5. Reassembled'
  BY <1>4 DEF Reassembled
<1>6. picked' = picked => InTurn'
  BY <1>1 DEF InTurn, Kept, TypeOK
<1>7. QED
  BY <1>5, <1>6

-----------------------------------------------------------------------------
\* A step that leaves the stream intact keeps what is received in turn.
LEMMA NextReassembles ==
  ASSUME ChannelInv, [Next]_vars, Intact, Intact', Kept, Len(sent') \in Nat,
         Len(packets') \in Nat
  PROVE  InTurn' /\ Reassembled'
<1>1. /\ TypeOK /\ QueuedUnderOwn /\ PacketsInOrder /\ InTurn /\ Reassembled
      /\ MessagesFit /\ listening /\ ~mistaken'
  BY DEF ChannelInv, Orderly, Intact
<1>2. CASE Dispatch
  BY <1>1, <1>2, DispatchReassembles
<1>3. CASE GetNextToDispatch
  <2>1. UNCHANGED <<received, buffer, dispatched>>
    BY <1>3 DEF GetNextToDispatch
  <2>2. QED
    BY <1>1, <1>3, <2>1, PickInTurn, OthersKeepReassembled
<1>4. CASE UNCHANGED <<received, buffer, dispatched, picked>>
  BY <1>1, <1>4, OthersKeepReassembled
<1>5. Dispatch \/ GetNextToDispatch \/ UNCHANGED <<received, buffer, dispatched, picked>>
  BY DEF Next, SenderStep, ReadCounter, NextOutgoingSequenceID, SendPacket, Send, Timeout,
         ReceiveAck, ReceiveMultiAck, Arrive, CleanupConnection, CleanupReceiver, vars,
         receiverVars
<1>6. QED
  BY <1>2, <1>3, <1>4, <1>5

\* Every step keeps the invariant of both sides.
LEMMA NextKeepsChannelInv == ChannelInv /\ [Next]_vars => ChannelInv'
<1> SUFFICES ASSUME ChannelInv, [Next]_vars PROVE ChannelInv'
  OBVIOUS
<1>1. TypeOK /\ QueuedUnderOwn
  BY DEF ChannelInv
<1>2. Kept /\ Len(sent') \in Nat /\ Len(packets') \in Nat
  BY <1>1, NextKeeps
<1>3. TypeOK' /\ QueuedUnderOwn'
  BY <1>1, <1>2, NextKeepsTypeOK, NextKeepsQueued
<1>4. (Orderly' => Orderly) /\ (Intact' => Intact)
  BY <1>1, <1>2, IntactBefore
<1>5. Orderly' => PacketsInOrder' /\ OneSends'
  <2> SUFFICES ASSUME Orderly' PROVE PacketsInOrder' /\ OneSends'
    OBVIOUS
  <2>1. OrderInv
    BY <1>1, <1>4 DEF ChannelInv, OrderInv
  <2>2. QED
    BY <1>2, <2>1, NextKeepsOrder
<1>6. Intact' => InTurn' /\ Reassembled'
  BY <1>2, <1>4, NextReassembles
<1>7. QED
  BY <1>3, <1>5, <1>6 DEF ChannelInv

\* It holds of a connection on which nothing has been sent.
LEMMA InitHasChannelInv == Init => ChannelInv /\ Intact
<1> SUFFICES ASSUME Init PROVE ChannelInv /\ Intact
  OBVIOUS
<1>1. /\ packets = << >> /\ sent = << >> /\ received = << >> /\ buffer = << >>
      /\ dispatched = 0 /\ picked = 0 /\ counter = 0 /\ DOMAIN queue = {}
      /\ listening = TRUE /\ overlapped = FALSE /\ mistaken = FALSE
      /\ \A s \in Senders : sending[s] = Idle
  BY DEF Init
<1>2. Len(packets) = 0 /\ Len(sent) = 0 /\ Len(received) = 0 /\ Len(buffer) = 0
  BY <1>1, EmptySeq
<1>3. TypeOK /\ QueuedUnderOwn
  BY <1>1, InitHasType DEF QueuedUnderOwn
<1>4. PacketsInOrder /\ OneSends
  BY <1>1, <1>2 DEF PacketsInOrder, OneSends, Following
<1>5. InTurn /\ Reassembled
  BY <1>1, <1>2 DEF InTurn, Reassembled, Following, Place
<1>6. Intact
  BY <1>1, <1>2 DEF Intact, MessagesFit
<1>7. QED
  BY <1>3, <1>4, <1>5, <1>6 DEF ChannelInv

\* Whatever happens, messages are put in one by one while the connection lasts,
\* and come out one by one.
LEMMA NextIsBroken ==
  ASSUME TypeOK, [Next]_vars, ~Intact'
  PROVE  Channel!Broken
<1>1. CASE Dispatch
  <2>1. received' = received \/ \E x \in Messages \cup {Garbled} : received' = Append(received, x)
    BY <1>1, AssembledType DEF Dispatch
  <2>2. UNCHANGED <<sent, connected>>
    BY <1>1 DEF Dispatch, senderVars
  <2>3. QED
    BY <2>1, <2>2 DEF Channel!Broken
<1>2. CASE \E s \in Senders, m \in Messages : Send(s, m)
  BY <1>2 DEF Send, receiverVars, Channel!Broken
<1>3. CASE UNCHANGED <<sent, received>> /\ (connected' = connected \/ connected' = FALSE)
  BY <1>3 DEF TypeOK, Channel!Broken
<1>4. \/ Dispatch \/ \E s \in Senders, m \in Messages : Send(s, m)
      \/ UNCHANGED <<sent, received>> /\ (connected' = connected \/ connected' = FALSE)
  BY DEF Next, SenderStep, ReadCounter, NextOutgoingSequenceID, SendPacket, Timeout, SenderEnds,
         ReceiveAck, ReceiveMultiAck, Arrive, GetNextToDispatch, CleanupConnection,
         CleanupReceiver, vars, senderVars, receiverVars
<1>5. QED
  BY <1>1, <1>2, <1>3, <1>4

\* The stream implements the reliable channel: whichever packets are lost,
\* repeated or reordered, messages come out whole, once each and in the order in
\* which they were sent, for as long as goroutines send one at a time, no
\* sequence ID is taken for another packet's, no message is too long for the
\* fragment IDs and the receiver's end lasts.
THEOREM Implementation == Spec => ImplementsReliableChannel
<1>1. Init => Channel!Init
  BY InitHasChannelInv DEF Init, Channel!Init
<1>2. Init => ChannelInv
  BY InitHasChannelInv
<1>3. ChannelInv /\ [Next]_vars => ChannelInv'
  BY NextKeepsChannelInv
<1>4. ChannelInv /\ [Next]_vars => [Channel!Next]_(Channel!vars)
  <2> SUFFICES ASSUME ChannelInv, [Next]_vars PROVE [Channel!Next]_(Channel!vars)
    OBVIOUS
  <2>1. CASE ~Intact'
    BY <2>1, NextIsBroken DEF ChannelInv, Channel!Next
  <2>2. CASE Intact'
    <3>1. TypeOK
      BY DEF ChannelInv
    <3>2. Kept /\ Len(sent') \in Nat
      BY <3>1, NextKeeps
    <3>3. Intact /\ Intact' = Intact
      BY <2>2, <3>1, <3>2, IntactBefore DEF Intact
    <3>4. CASE Dispatch
      <4>1. UNCHANGED <<sent, connected>>
        BY <3>4 DEF Dispatch, senderVars
      <4>2. /\ PacketsInOrder /\ InTurn /\ Reassembled /\ MessagesFit /\ listening
        BY <3>3 DEF ChannelInv, Orderly, Intact
      <4>3. \/ received' = received
            \/ /\ Len(received) < Len(sent)
               /\ received' = Append(received, sent[Len(received) + 1])
        BY <3>1, <3>4, <4>2, DispatchReassembles
      <4>4. QED
        BY <3>3, <4>1, <4>3 DEF Channel!Next, Channel!Deliver, Channel!vars
    <3>5. CASE \E s \in Senders, m \in Messages : Send(s, m)
      BY <3>3, <3>5 DEF Send, receiverVars, Channel!Next, Channel!Send
    <3>6. CASE connected' = FALSE /\ UNCHANGED <<sent, received>>
      BY <3>1, <3>3, <3>6 DEF TypeOK, Channel!Next, Channel!Close, Channel!vars
    <3>7. CASE UNCHANGED <<sent, received, connected>>
      BY <3>3, <3>7 DEF Channel!vars
    <3>8. \/ Dispatch \/ \E s \in Senders, m \in Messages : Send(s, m)
          \/ connected' = FALSE /\ UNCHANGED <<sent, received>>
          \/ UNCHANGED <<sent, received, connected>>
      BY DEF Next, SenderStep, ReadCounter, NextOutgoingSequenceID, SendPacket, Timeout,
             SenderEnds, ReceiveAck, ReceiveMultiAck, Arrive, GetNextToDispatch,
             CleanupConnection, CleanupReceiver, vars, senderVars, receiverVars
    <3>9. QED
      BY <3>4, <3>5, <3>6, <3>7, <3>8
  <2>3. QED
    BY <2>1, <2>2
<1>5. QED
  BY <1>1, <1>2, <1>3, <1>4, PTL DEF Spec, ImplementsReliableChannel, Channel!Spec
=============================================================================
