SPECIFICATION FairSpec
CONSTANTS
  MaxClips = 2
  MaxVoices = 2
  ClipFrames = 1
  ChunkFrames = 1
  GenMod = 3
  SerialMod = 6
  MaxLoads = 3
  MaxPlays = 3
INVARIANTS Safety TicketsFaithful
PROPERTIES StealsOldest SoundsEnd
