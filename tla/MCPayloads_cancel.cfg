\* One peer, one payload of two fragments, a transport that may refuse the PayloadCancel.
SPECIFICATION Spec
CONSTANTS
  Peers = {p}
  Sizes <- TwoOnly
  Prios <- TwoPrios
  Aging = 1
  Limit = 4
  MaxOpen = 2
  Refusable <- CancelRefused
  MaxPayloads = 1
  MaxTick = 3
  MaxSends = 1
INVARIANTS PartsAreFreed
