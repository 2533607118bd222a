-------------------------- MODULE MCReliableStream --------------------------
(* Instances of ReliableStream for TLC. *)
EXTENDS ReliableStream

CONSTANTS short, long, huge   \* messages of one packet, of two, and of three

MCSize == [m \in {short, long, huge} |-> IF m = short THEN 1 ELSE IF m = long THEN 2 ELSE 3]

\* Nothing is promised once a sequence ID has been taken for another packet's.
MCNotMistaken == ~mistaken
=============================================================================
