\* Two peers, two payloads of up to two fragments, two priorities, a client with room for two fragments
\* and a transport that may refuse an acknowledgement: every preemption, cancel and drop, under fairness.
SPECIFICATION FairSpec
CONSTANTS
  Peers = {p, q}
  Sizes <- UpToTwo
  Prios <- TwoPrios
  Aging = 2
  Limit = 2
  MaxOpen = 2
  Refusable <- AckRefused
  MaxPayloads = 2
  MaxTick = 3
  MaxSends = 1
INVARIANTS  EventsAreTrue PartsAreFreed BytesAddUp
PROPERTIES PayloadsLeave AgesPast
