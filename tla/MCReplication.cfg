\* One entity, one component, no budget pressure: every change, loss and reordering of five sends.
SPECIFICATION Spec
CONSTANTS
  Ids <- Ids1
  Slots = {s1}
  Values = {a, b}
  Absent = absent
  Peers = {self}
  NoOwner = none
  Window = 3
  Parent <- NoParents
  Weight <- Ones
  MaxWeight = 1
  Self = self
  Predicting = FALSE
  RecordSize <- Ones
  RemovalSize = 1
  Budget = 10
  MaxEntries = 10
  Views <- AllViews
  MaxTick = 5
INVARIANTS ExactStates NeverRefused Synced
PROPERTIES OneRoundTrip
