SPECIFICATION MCSpec
CONSTANTS
  Scale = 4
  MinSbWidth = 2
  NoGuess = 160000
  OffScreens = {0, 3}
  Rolls = {0, 1}
  Width = 3
  Spots <- SpotsHere
  Lamps <- LampsHere
  ErrorMaxCount = 1
  GlitchMaxCount = 2
  GlitchDistance = 1
  Deadzone = 0
  MaxPlace = 2
  LostBlinks = 1
  Nil = Nil
INVARIANTS OnTarget HeldBriefly
PROPERTIES Tracks NoJump MouseOnBar LedsTell
CHECK_DEADLOCK FALSE
