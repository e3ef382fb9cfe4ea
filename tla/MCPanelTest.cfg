SPECIFICATION TestSpec
CONSTANTS
  Fbs <- Buffers
  Off = Off
  Others = Others
  NoFb = NoFb
  Tries = 1
  Frames = 5
  Modes = {uhd, fhd}
  FirstMode = uhd
  NoMode = NoMode
  OtherSize = OtherSize
  Signals = {SIGINT, SIGTERM}
INVARIANTS
  NoTearing
  AllFlipsLanded
  GateSuffices
  HandBackLeavesNoFaults
PROPERTIES
  ScriptEnds
