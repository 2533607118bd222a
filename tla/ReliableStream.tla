--------------------------- MODULE ReliableStream ---------------------------
(***************************************************************************)
(* One reliable substream of a PRUDP connection (nex-go), from a sender to *)
(* a receiver: the sender splits messages into fragments (PRUDPServer.Send *)
(* and sendPacket), numbers the packets (SlidingWindow) and resends those  *)
(* that are not acknowledged (TimeoutManager); the receiver acknowledges   *)
(* each packet, puts them in order (PacketDispatchQueue) and reassembles   *)
(* the messages (HandleReliable).                                          *)
(*                                                                         *)
(* The server is the sender of one such stream and the receiver of another *)
(* one.  The console's end of either is not in this repository; it is      *)
(* taken to be what the server's end is, which is "an implementation of"   *)
(* the same original library.                                              *)
(*                                                                         *)
(* A packet is known by its place in the order of encryption, 1, 2, 3 ...  *)
(* It carries a number, which the code keeps on 16 bits: the sequence ID.  *)
(* Nothing in the code keeps one ID from standing for two packets, nor two *)
(* goroutines from sending at once.  Both happen here as they do there, and *)
(* two history variables, mistaken and overlapped, tell that they have.    *)
(***************************************************************************)
EXTENDS Integers, Sequences, Functions

CONSTANTS
  Messages,          \* the messages that may be sent
  Size,              \* Size[m]: the number of fragments of m
  Garbled,           \* what RMCMessage.FromBytes makes of anything else
  Senders,           \* the goroutines that send to the connection
  Modulus,           \* sequence IDs; 2^16 in the code
  FirstSequenceID,   \* 2 from a console, 1 from the server
  FragmentIDs,       \* fragment IDs; 2^8 in the code
  MaxPacketRetransmissions,
  MaxPackets         \* bound of the model: packets sent in a behaviour

ASSUME StreamAssumption ==
  /\ Size \in [Messages -> Nat \ {0}]
  /\ Garbled \notin Messages
  /\ Modulus \in Nat \ {0}
  /\ FirstSequenceID \in Nat \ {0}
  /\ FragmentIDs \in Nat \ {0}
  /\ MaxPacketRetransmissions \in Nat \ {0}
  /\ MaxPackets \in Nat

VARIABLES
  sent,         \* history: the messages sent, in order
  sending,      \* sending[s]: what s is in the middle of sending
  counter,      \* SlidingWindow.sequenceIDCounter, not taken modulo anything
  packets,      \* the packets sent, as encrypted; all of them are, and stay, in
                \* the network: any may arrive, late, again or never
  pending,      \* TimeoutManager.packets: packets to acknowledge, by ID
  timers,       \* the packets for which a TimeoutManager.start goroutine waits:
                \* timers[n] is the packet's sendCount
  connected,    \* ConnectionState = StateConnected at the sender's end
  listening,    \* and at the receiver's
  arrived,      \* history: packets that have arrived and been acknowledged
  queue,        \* PacketDispatchQueue.queue: packets by sequence ID
  picked,       \* what GetNextToDispatch has returned and the loop is at, or 0
  dispatched,   \* packets dispatched; nextExpectedSequenceId is the sequence ID
                \* of the next one
  buffer,       \* the incoming fragment buffer
  received,     \* the messages handed to the request handlers, in order
  overlapped,   \* history: a goroutine began to send while another was sending
  mistaken      \* history: a sequence ID was taken for another packet's

senderVars == <<sent, sending, counter, packets, pending, timers, connected, overlapped>>
receiverVars == <<listening, arrived, queue, picked, dispatched, buffer, received>>
vars == <<senderVars, receiverVars, mistaken>>

\* A fragment is named by the position of its message in sent and its own in
\* the message.
Fragment == [message: Nat \ {0}, part: Nat \ {0}]

\* What deciphering makes of a packet at the wrong place of the key stream.
Noise == [message |-> 0, part |-> 0]

Packet == [message: Nat \ {0}, part: Nat \ {0}, number: Nat]

\* What a goroutine is at: it pauses before its next fragment, has read the
\* counter, or has a number.
Sending == [message: Nat \ {0}, part: Nat \ {0},
            step: {"pausing", "read", "numbered"}, number: Nat]

At(message, part, step, number) ==
  [message |-> message, part |-> part, step |-> step, number |-> number]

Idle == At(0, 0, "pausing", 0)

\* Mutant of SequenceID: a wider counter.
SequenceIDUnbounded(k) == FirstSequenceID + k - 1

\* The sequence ID of the k-th number.
SequenceID(k) == (FirstSequenceID + k - 1) % Modulus

\* The sequence ID packet n carries.
IDOf(n) == SequenceID(packets[n].number)

Without(f, x) == [y \in DOMAIN f \ {x} |-> f[y]]

With(f, x, v) == [y \in DOMAIN f \cup {x} |-> IF y = x THEN v ELSE f[y]]

TypeOK ==
  /\ sent \in Seq(Messages)
  /\ sending \in [Senders -> Sending \cup {Idle}]
  /\ counter \in Nat
  /\ packets \in Seq(Packet)
  /\ DOMAIN pending \subseteq 0 .. (Modulus - 1)
  /\ \A i \in DOMAIN pending : pending[i] \in 1 .. Len(packets)
  /\ DOMAIN timers \subseteq 1 .. Len(packets)
  /\ \A n \in DOMAIN timers : timers[n] \in Nat \ {0}
  /\ connected \in BOOLEAN
  /\ listening \in BOOLEAN
  /\ arrived \subseteq 1 .. Len(packets)
  /\ DOMAIN queue \subseteq 0 .. (Modulus - 1)
  /\ \A i \in DOMAIN queue : queue[i] \in 1 .. Len(packets)
  /\ picked \in 0 .. Len(packets)
  /\ dispatched \in Nat
  /\ buffer \in Seq(Fragment \cup {Noise})
  /\ received \in Seq(Messages \cup {Garbled})
  /\ overlapped \in BOOLEAN
  /\ mistaken \in BOOLEAN

-----------------------------------------------------------------------------
(***************************************************************************)
(* Sending.  Nothing is locked: what several goroutines do interleaves at  *)
(* every step below.                                                       *)
(***************************************************************************)

PacketsOf(messages) == SumFunction([j \in DOMAIN messages |-> Size[messages[j]]])

\* PRUDPServer.Send, called by s: from here to the last fragment, with a pause
\* after each one.
Send(s, m) ==
  /\ connected
  /\ sending[s] = Idle
  /\ PacketsOf(sent) + Size[m] <= MaxPackets
  /\ sent' = Append(sent, m)
  /\ sending' = [sending EXCEPT ![s] = At(Len(sent) + 1, 1, "pausing", 0)]
  /\ overlapped' = (overlapped \/ \E other \in Senders \ {s} : sending[other] # Idle)
  /\ UNCHANGED <<counter, packets, pending, timers, connected, receiverVars, mistaken>>

\* sendPacket for the next fragment of s begins: Counter.Next, which no lock or
\* atomic operation guards, reads the counter ...
ReadCounter(s) ==
  /\ connected
  /\ sending[s] # Idle /\ sending[s].step = "pausing"
  /\ sending' = [sending EXCEPT ![s] = At(@.message, @.part, "read", counter)]
  /\ UNCHANGED <<sent, counter, packets, pending, timers, connected, overlapped,
                  receiverVars, mistaken>>

\* ... and writes what it has read plus one, which is the packet's number.  If
\* another goroutine has written in between, that number is taken.
NextOutgoingSequenceID(s) ==
  LET number == sending[s].number + 1
  IN  /\ connected
      /\ sending[s].step = "read"
      /\ counter' = number
      /\ sending' = [sending EXCEPT ![s] = At(@.message, @.part, "numbered", number)]
      /\ mistaken' = (mistaken \/ counter # sending[s].number)
      /\ UNCHANGED <<sent, packets, pending, timers, connected, overlapped, receiverVars>>

\* sendPacket goes on: the fragment is encrypted with the stream cipher, at the
\* place the goroutines before have left it, remembered, its timer started, and
\* sent.  Goroutines may get here in another order than that of their numbers.
\* (Between encrypting and remembering the packet is nobody else's to see.)
SendPacket(s) ==
  LET fragment == sending[s]
      n == Len(packets) + 1
      id == SequenceID(fragment.number)
  IN  /\ connected
      /\ fragment.step = "numbered"
      /\ packets' = Append(packets, [message |-> fragment.message,
           part |-> fragment.part, number |-> fragment.number])
      /\ pending' = With(pending, id, n)
      /\ timers' = With(timers, n, 1)
      /\ sending' = [sending EXCEPT ![s] =
           IF fragment.part = Size[sent[fragment.message]]
           THEN Idle
           ELSE At(fragment.message, fragment.part + 1, "pausing", 0)]
      /\ mistaken' = (mistaken \/ id \in DOMAIN pending)
      /\ UNCHANGED <<sent, counter, connected, overlapped, receiverVars>>

\* Reset at the sender's end: Stop clears the packets to acknowledge and cancels
\* the timers, whose goroutines find the connection closed and return.  What is
\* sent later of a message begun is numbered and signed anew and nobody takes it.
SenderEnds ==
  /\ connected' = FALSE
  /\ pending' = << >>
  /\ timers' = << >>

\* Mutant of Timeout: the packet is resent, and its timer not started again.
TimeoutOnce(n) ==
  /\ n \in DOMAIN timers
  /\ connected /\ IDOf(n) \in DOMAIN pending
  /\ timers[n] < MaxPacketRetransmissions
  /\ timers' = Without(timers, n)
  /\ UNCHANGED <<sent, sending, counter, packets, pending, connected, overlapped,
                  receiverVars, mistaken>>

\* TimeoutManager.start, when the timer of packet n has run out: resend and
\* wait again, give the connection up (CleanupConnection), or, when its ID is
\* no longer there to be acknowledged, be done.
Timeout(n) ==
  /\ n \in DOMAIN timers
  /\ \/ /\ IDOf(n) \in DOMAIN pending
        /\ timers[n] < MaxPacketRetransmissions
        /\ timers' = [timers EXCEPT ![n] = @ + 1]
        /\ UNCHANGED <<pending, connected>>
     \/ /\ IDOf(n) \in DOMAIN pending
        /\ timers[n] >= MaxPacketRetransmissions
        /\ SenderEnds
     \/ /\ IDOf(n) \notin DOMAIN pending
        /\ timers' = Without(timers, n)
        /\ UNCHANGED <<pending, connected>>
  /\ UNCHANGED <<sent, sending, counter, packets, overlapped, receiverVars, mistaken>>

\* The connection ends for a reason of its own, silence or a DISCONNECT, at the
\* sender's end.
CleanupConnection ==
  /\ connected
  /\ SenderEnds
  /\ UNCHANGED <<sent, sending, counter, packets, overlapped, receiverVars, mistaken>>

\* The same at the receiver's end: Purge empties the queue, and the sliding
\* windows with the ciphers' keys are gone, also in the middle of a loop of
\* HandleReliable, as timers do not take the connection's lock.
CleanupReceiver ==
  /\ listening
  /\ listening' = FALSE
  /\ queue' = << >>
  /\ UNCHANGED <<arrived, picked, dispatched, buffer, received, senderVars, mistaken>>

-----------------------------------------------------------------------------
(***************************************************************************)
(* Acknowledgments.                                                        *)
(***************************************************************************)

\* AcknowledgePacket: an acknowledgment of packet n, sent when n arrived,
\* arrives.  It carries the sequence ID only, and whatever packet is remembered
\* under it now is forgotten.
ReceiveAck(n) ==
  /\ connected
  /\ n \in arrived
  /\ pending' = Without(pending, IDOf(n))
  /\ mistaken' = (mistaken \/ (IDOf(n) \in DOMAIN pending /\ pending[IDOf(n)] # n))
  /\ UNCHANGED <<sent, sending, counter, packets, timers, connected, overlapped, receiverVars>>

\* The receiver has had every packet up to the k-th number.
AllArrived(k) ==
  \A j \in 1 .. k : \E n \in arrived : packets[n].number = j

\* A packet numbered after k has an ID that is not after k's: IDs have wrapped.
Wrapped(k) ==
  \E i \in DOMAIN pending : i <= SequenceID(k) /\ packets[pending[i]].number > k

\* Mutant of ReceiveMultiAck: the ID after the k-th counts as acknowledged.
ReceiveMultiAckOffByOne(k) ==
  /\ connected
  /\ AllArrived(k)
  /\ pending' = [i \in {i \in DOMAIN pending : i > SequenceID(k) + 1} |-> pending[i]]
  /\ mistaken' = (mistaken \/ Wrapped(k))
  /\ UNCHANGED <<sent, sending, counter, packets, timers, connected, overlapped, receiverVars>>

\* handleMultiAcknowledgment: an aggregate acknowledgment of the packets up to
\* the k-th number.  Sequence IDs are compared as numbers: every packet whose ID
\* is not larger is forgotten.  The additional IDs it may list are acknowledged
\* as if one by one.
ReceiveMultiAck(k) ==
  /\ connected
  /\ AllArrived(k)
  /\ pending' = [i \in {i \in DOMAIN pending : i > SequenceID(k)} |-> pending[i]]
  /\ mistaken' = (mistaken \/ Wrapped(k))
  /\ UNCHANGED <<sent, sending, counter, packets, timers, connected, overlapped, receiverVars>>

-----------------------------------------------------------------------------
(***************************************************************************)
(* Receiving.  HandleReliable runs under the connection's lock: it queues  *)
(* the packet and then loops, as long as the next packet is in the queue.  *)
(***************************************************************************)

Dispatchable == SequenceID(dispatched + 1) \in DOMAIN queue

\* Packet n, or another copy of it, arrives, is acknowledged and queued.  A copy
\* of a packet that was dispatched stays in the queue until its ID comes up.
Arrive(n) ==
  /\ listening
  /\ picked = 0 /\ ~Dispatchable
  /\ arrived' = arrived \cup {n}
  /\ queue' = With(queue, IDOf(n), n)
  /\ UNCHANGED <<listening, picked, dispatched, buffer, received, senderVars, mistaken>>

\* GetNextToDispatch finds a packet: the loop goes on.
GetNextToDispatch ==
  LET n == queue[SequenceID(dispatched + 1)]
  IN  /\ picked = 0
      /\ Dispatchable
      /\ picked' = n
      /\ mistaken' = (mistaken \/ (IDOf(n) = SequenceID(dispatched + 1)
                                   /\ packets[n].number # dispatched + 1))
      /\ UNCHANGED <<listening, arrived, queue, dispatched, buffer, received, senderVars>>

\* The stream cipher has deciphered as many packets as were dispatched.  Once
\* the windows are gone, the fail-safe makes a new one, without the session key.
Deciphered(n) ==
  IF listening /\ n = dispatched + 1
  THEN [message |-> packets[n].message, part |-> packets[n].part]
  ELSE Noise

FragmentsOf(j) == [i \in 1 .. Size[sent[j]] |-> [message |-> j, part |-> i]]

\* What FromBytes makes of the collected fragments.
Assembled(fragments) ==
  IF \E j \in 1 .. Len(sent) : fragments = FragmentsOf(j)
  THEN sent[fragments[1].message]
  ELSE Garbled

\* Fragment IDs are a uint8 counted from 1, and 0 marks the last fragment, also
\* when it has come by counting on.
FragmentID(packet) ==
  IF packet.part = Size[sent[packet.message]] THEN 0 ELSE packet.part % FragmentIDs

\* Mutant of Dispatch: the buffer is not cleared after a message.
DispatchKeepingBuffer ==
  LET collected == Append(buffer, Deciphered(picked))
  IN  /\ picked # 0
      /\ buffer' = collected
      /\ received' = IF FragmentID(packets[picked]) = 0
                     THEN Append(received, Assembled(collected))
                     ELSE received
      /\ dispatched' = dispatched + 1
      /\ queue' = Without(queue, IDOf(picked))
      /\ picked' = 0
      /\ UNCHANGED <<listening, arrived, senderVars, mistaken>>

\* The rest of one turn of the loop.
Dispatch ==
  LET collected == Append(buffer, Deciphered(picked))
  IN  /\ picked # 0
      /\ IF FragmentID(packets[picked]) = 0
         THEN /\ received' = Append(received, Assembled(collected))
              /\ buffer' = << >>
         ELSE /\ buffer' = collected
              /\ UNCHANGED received
      /\ dispatched' = dispatched + 1
      /\ queue' = Without(queue, IDOf(picked))
      /\ picked' = 0
      /\ UNCHANGED <<listening, arrived, senderVars, mistaken>>

-----------------------------------------------------------------------------
Init ==
  /\ sent = << >>
  /\ sending = [s \in Senders |-> Idle]
  /\ counter = 0
  /\ packets = << >>
  /\ pending = << >>
  /\ timers = << >>
  /\ connected = TRUE
  /\ listening = TRUE
  /\ arrived = {}
  /\ queue = << >>
  /\ picked = 0
  /\ dispatched = 0
  /\ buffer = << >>
  /\ received = << >>
  /\ overlapped = FALSE
  /\ mistaken = FALSE

SenderStep(s) == ReadCounter(s) \/ NextOutgoingSequenceID(s) \/ SendPacket(s)

Next ==
  \/ \E s \in Senders : SenderStep(s) \/ \E m \in Messages : Send(s, m)
  \/ \E n \in 1 .. Len(packets) : Timeout(n) \/ ReceiveAck(n) \/ Arrive(n)
  \/ \E k \in 1 .. counter : ReceiveMultiAck(k)
  \/ GetNextToDispatch
  \/ Dispatch
  \/ CleanupConnection
  \/ CleanupReceiver

Spec == Init /\ [][Next]_vars

\* A goroutine that sends goes on sending, timers run out, and a handler's loop
\* goes on.  Nothing is assumed of the network: it may lose everything.
Fairness ==
  /\ \A s \in Senders : WF_vars(SenderStep(s))
  /\ \A n \in 1 .. MaxPackets : WF_vars(n \in 1 .. Len(packets) /\ Timeout(n))
  /\ WF_vars(GetNextToDispatch)
  /\ WF_vars(Dispatch)

FairSpec == Spec /\ Fairness

-----------------------------------------------------------------------------
\* Every message fits in the fragment IDs there are.
MessagesFit == \A j \in 1 .. Len(sent) : Size[sent[j]] <= FragmentIDs

\* What the stream's promise rests on.  The code sees to none of it: goroutines
\* send one at a time, no sequence ID has been taken for another packet's,
\* messages are not too long, and the receiver's end lasts.
Intact == ~overlapped /\ ~mistaken /\ MessagesFit /\ listening

\* Messages come out whole, once each and in order, whichever packets are lost,
\* repeated or reordered: the stream is a reliable channel while it is intact.
Channel == INSTANCE ReliableChannel WITH open <- connected, intact <- Intact

ImplementsReliableChannel == Channel!Spec

\* As long as the connection lasts and no sequence ID has been taken for another
\* packet's, a packet that has not arrived will be sent again: it is remembered
\* under its own sequence ID, and a timer runs for it.  This holds however many
\* goroutines send at once: an acknowledgment covers no packet that is missing.
MissingPacketsArePending ==
  connected /\ ~mistaken =>
    \A n \in (1 .. Len(packets)) \ arrived :
      /\ n \in DOMAIN timers
      /\ IDOf(n) \in DOMAIN pending
      /\ pending[IDOf(n)] = n

\* As many packets as are sent are dispatched, an end gives the connection up,
\* or a sequence ID is taken for another packet's: no stream stalls for any
\* other reason, whatever the network loses and however many goroutines send.
SentIsReceivedOrEnds ==
  \A k \in 1 .. MaxPackets :
    (Len(packets) >= k) ~> (dispatched >= k \/ ~connected \/ ~listening \/ mistaken)
=============================================================================
