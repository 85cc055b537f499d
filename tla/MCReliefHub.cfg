CONSTANTS
  clinic = clinic
  r1 = r1
  r2 = r2
  stranger = stranger
  p = p
  NoNode = NoNode
  Nodes <- MCNodes
  Clinics <- MCClinics
  Relays <- MCRelays
  Payloads <- MCPayloads
  ClinicOf <- MCClinicOf
  ChunkCount <- MCChunkCount
  Opens <- MCOpens
  ResendAfter = 1
  MaxResends = 2
  Arrivals <- MCArrivals
  MaxLog = 4
  MaxTime = 1
  MaxRevokes = 1
  MaxCrashes = 1
  PromptReload = TRUE
  TornWrites = FALSE
SPECIFICATION FairSpec
INVARIANTS
  PaidIsEarned
  VerifiedIsComplete
  RevokedKeyNeverPaid
  InboxRestored
  
  LiveIsRebuilt
PROPERTIES
  LegibleLogRecovers
  RequestsBackOff
CHECK_DEADLOCK FALSE
