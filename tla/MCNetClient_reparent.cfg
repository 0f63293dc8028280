\* Three entities in any forest of their own, none of them predicted and none destroyed by the game; no inputs.
SPECIFICATION NetClientSpec
CONSTANTS
  Inputs = {a}
  Idle = idle
  Ring = 1
  MaxLead = 1
  Redundancy = 1
  MaxAhead = 0
  MaxJump = 0
  MaxTick = 0
  MaxPredicted = 0
  Entities <- Ids3
  Nobody = nobody
  Unreplicated = unreplicated
  MaxDepth = 2
  Own <- NoIds
  Samples <- Replicated
  MaxBuffered = 1
  MaxDamage = 0
  Both = FALSE
PROPERTIES KeptByNewParent
