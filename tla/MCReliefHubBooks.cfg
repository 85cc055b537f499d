CONSTANTS
  clinic = clinic
  r1 = r1
  r2 = r2
  stranger = stranger
  p = p
  NoNode = NoNode
  Nodes <- MCNodes
  Clinics <- MCClinics
  Relays <- MCRelays
  Payloads <- MCPayloads
  ClinicOf <- MCClinicOf
  ChunkCount <- MCChunkCount
  Opens <- MCOpens
  ResendAfter = 1
  MaxResends = 1
  Arrivals <- MCClinicCarries
  MaxLog = 2
  MaxTime = 0
  MaxRevokes = 1
  MaxCrashes = 0
  PromptReload = TRUE
  TornWrites = TRUE
SPECIFICATION Spec
INVARIANTS
  LiveIsRebuilt
CHECK_DEADLOCK FALSE
