CONSTANTS
  None = None
  Bundles <- PayloadBundles
  MaxPayloads = 2
  Sizes = {1, 2}
  Layers <- AcknowledgingLayers
  Segments = 2
  MaxHeld = 2
  MaxFaults = 2
  MaxConns = 3
SPECIFICATION FairSpec
INVARIANTS
  NothingLost
  OneSession
  DeliveredWhole
PROPERTIES
  StoredAndForwarded
  Arrives
CHECK_DEADLOCK FALSE
