CONSTANTS
  clinic = clinic
  r1 = r1
  r2 = r2
  hubNode = hubNode
  p1 = p1
  NoNode = NoNode
  Nodes <- MCNodes
  Clinics <- MCClinics
  Relays <- MCRelays
  Payloads <- MCOnePayload
  ClinicOf <- MCClinicOf
  ChunkCount <- MCTwoChunks
  Opens <- MCOpens
  ResendAfter = 0
  MaxResends = 3
  HubNode = hubNode
  TheClinic = clinic
  NextHop <- MCNextHop
  MaxResendsPerChunk = 3
  Patient = TRUE
  Crashable <- MCLastRelay
  MaxFaults = 2
  MaxRelayCrashes = 1
  MaxClinicCrashes = 1
  MaxHubCrashes = 1
  Parts = {"net", "payout", "region"}
  NoFund = NoFund
  Handoffs = {h1, h2, h3}
  Payable = {h1, h2}
  Funds = {f1, f2}
  Tools = {t1, t2}
  MaxMishaps = 1
  Districts = 2
  CouriersPer = 2
  ClinicCount = 1
  Days = 2
  ReportChunks = 1
  AttachmentChunks = 0
  MaxSpoils = 2
SPECIFICATION MCSpec
INVARIANTS
  PaidWasCarried
  NoAmplification
  LedgerIsAccepted
  OnceOnly
  PaidHandedOn
  HonestIsPaid
  LostIsLocated
PROPERTIES
  PromiseKept
  Delivered
CHECK_DEADLOCK FALSE
