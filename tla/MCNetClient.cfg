\* Inputs: two, a ring of four ticks, five server ticks and a client up to eight ahead.  The world:
\* three entities in any forest, a fourth to be too deep below, one that the client predicts, one that
\* the game destroys.
SPECIFICATION NetClientSpec
CONSTANTS
  Inputs = {a, b}
  Idle = idle
  Ring = 4
  MaxLead = 2
  Redundancy = 2
  MaxAhead = 1
  MaxJump = 1
  MaxTick = 5
  MaxPredicted = 8
  Entities <- Ids4
  Nobody = nobody
  Unreplicated = unreplicated
  MaxDepth = 2
  Own <- Inner
  Samples <- SomeForests
  MaxBuffered = 1
  MaxDamage = 1
  Both = FALSE
INVARIANTS TicksRunTheirInput PredictionIsTrue PresentIsReplay StandInsAreGuesses
PROPERTIES Settles
