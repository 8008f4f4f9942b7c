SPECIFICATION Spec
CONSTANTS
  Single = 2
  Short = 2
  Word = 2
  TimeIndex = 2
  TriesInMemory = 3
  MaxEvents = 2
  None = None
  Cases <- MCCases
INVARIANT HeadTravelsTogether
INVARIANT TruthfulManifest
INVARIANT CapabilitiesServeable
INVARIANT ReadsTheField
CHECK_DEADLOCK FALSE
