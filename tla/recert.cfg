\* Campaigns and their renewals while roles are given, replaced and taken away.
SPECIFICATION RecertSpec
CONSTANTS
  dana = dana
  hugo = hugo
  NoOne = NoOne
  Principal <- People
  Human <- People
  Disabled = {}
  WarehouseOwner <- Owners
  HomePersona <- Home
  ControlPlane <- ControlCapsule
  OwnerCapsule <- GovernanceCapsule
  BasePersona <- Personas
  BaseCapsule <- Capsules
  BaseContract = {}
  Draft <- Drafts
  DatasetLevel <- Levels
  SeedMembership <- Members
  SeedBinding = {}
  MinTtl = 1
  MaxTtl = 1
  MaxTime = 1
  MaxGrants = 0
  MaxAssignment = 3
  CampaignName = {"quarterly"}
  Cadence = {1}
  MaxCampaigns = 3
INVARIANT RecertTypeOK
INVARIANT RevokedStaysRevoked
PROPERTY DecisionsAreInformed
INVARIANT CampaignsRestorable
PROPERTY ClosedCampaignsStay
CONSTRAINT TwoExplored
CHECK_DEADLOCK FALSE
