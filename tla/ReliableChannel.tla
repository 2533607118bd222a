--------------------------- MODULE ReliableChannel ---------------------------
(***************************************************************************)
(* What a reliable substream of a PRUDP connection promises: messages come *)
(* out whole, once each and in the order in which they were put in.  How   *)
(* that is done with packets that may be lost, repeated and reordered, and *)
(* what ends the promise, is the business of ReliableStream.               *)
(***************************************************************************)
EXTENDS Integers, Sequences

CONSTANTS
  Messages,   \* what can be sent
  Garbled     \* what no one sent

VARIABLES
  sent,       \* the messages put in, in order
  received,   \* the messages that came out, in order
  open,       \* whether the connection lasts
  intact      \* whether the promise does

vars == <<sent, received, open, intact>>

Init ==
  /\ sent = << >>
  /\ received = << >>
  /\ open = TRUE
  /\ intact = TRUE

Send(m) ==
  /\ open
  /\ sent' = Append(sent, m)
  /\ UNCHANGED <<received, open, intact>>

Deliver ==
  /\ Len(received) < Len(sent)
  /\ received' = Append(received, sent[Len(received) + 1])
  /\ UNCHANGED <<sent, open, intact>>

Close ==
  /\ open
  /\ open' = FALSE
  /\ UNCHANGED <<sent, received, intact>>

\* The promise ends, or has ended: what comes out may be anything, in any order.
\* It comes out all the same, and what is closed stays so.
Broken ==
  /\ ~intact'
  /\ sent' = sent \/ \E m \in Messages : open /\ sent' = Append(sent, m)
  /\ received' = received \/ \E m \in Messages \cup {Garbled} : received' = Append(received, m)
  /\ open' => open

Next == (\E m \in Messages : Send(m)) \/ Deliver \/ Close \/ Broken

Spec == Init /\ [][Next]_vars
=============================================================================
