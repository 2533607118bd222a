\* Both directions' protocol: losses, duplicates, reordering, resending, several
\* goroutines sending, and sequence IDs that come round.
CONSTANTS
  short = short
  long = long
  huge = huge
  Messages = {short, long, huge}
  Size <- MCSize
  Garbled = garbled
  Senders = {s1, s2}
  Modulus = 2
  FirstSequenceID = 2
  FragmentIDs = 2
  MaxPacketRetransmissions = 2
  MaxPackets = 3
SPECIFICATION FairSpec
CONSTRAINT MCNotMistaken
INVARIANTS TypeOK MissingPacketsArePending
PROPERTIES ImplementsReliableChannel SentIsReceivedOrEnds
CHECK_DEADLOCK FALSE
