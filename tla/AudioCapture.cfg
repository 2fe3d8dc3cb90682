SPECIFICATION FairSpec
CONSTANTS
  MaxStreams = 3
  MaxGenerations = 2
PROPERTIES GivenUpIsSilent StopIsAnswered
INVARIANTS MicrophoneIsInHand OneSoundOnePreview
CHECK_DEADLOCK FALSE
