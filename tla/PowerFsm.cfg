SPECIFICATION PowerFairSpec
CONSTANTS
  PromptAudio = TRUE
  BrownOut = TRUE
INVARIANTS
  PowerTypeOK
  HandshakeSafe
  SleepsDark
PROPERTY AlwaysSleepsAgain
