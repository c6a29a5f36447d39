SPECIFICATION PowerSpec
CONSTANTS
  PromptAudio = TRUE
  BrownOut = FALSE
PROPERTY BootGatedByGauge
