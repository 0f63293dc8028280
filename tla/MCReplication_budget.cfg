\* Two entities, the second the child of the first, owners that change, and a budget of one record:
\* entities wait their turn, removals are listed one at a time.
SPECIFICATION Spec
CONSTANTS
  Ids <- Ids2
  Slots <- NoSlots
  Values = {a}
  Absent = absent
  Peers = {self, other}
  NoOwner = none
  Window = 2
  Parent <- SecondBelowFirst
  Weight <- Rising
  MaxWeight = 2
  Self = self
  Predicting = TRUE
  RecordSize <- SecondIsLarge
  RemovalSize = 1
  Budget = 1
  MaxEntries = 10
  Views <- AllViews
  MaxTick = 4
INVARIANTS NoZombie WaitIsBounded
PROPERTIES NewChildBringsParent
