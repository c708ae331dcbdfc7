\* A decision that is taken after the due date has passed.
SPECIFICATION RecertSpec
CONSTANTS
  dana = dana
  hugo = hugo
  NoOne = NoOne
  Principal <- People
  Human <- People
  Disabled = {}
  WarehouseOwner <- Owners
  HomePersona <- Home
  ControlPlane <- ControlCapsule
  OwnerCapsule <- GovernanceCapsule
  BasePersona <- Personas
  BaseCapsule <- Capsules
  BaseContract = {}
  Draft <- Drafts
  DatasetLevel <- Levels
  SeedMembership <- Members
  SeedBinding = {}
  MinTtl = 1
  MaxTtl = 1
  MaxTime = 1
  MaxGrants = 0
  MaxAssignment = 4
  CampaignName = {"quarterly"}
  Cadence = {1}
  MaxCampaigns = 1
PROPERTY OverdueDecisionsBlocked
CHECK_DEADLOCK FALSE
