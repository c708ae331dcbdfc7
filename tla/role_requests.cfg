\* Two requests, their reviews and the changes of reviewers in between.
SPECIFICATION RequestSpec
CONSTANTS
  emma = emma
  dana = dana
  hugo = hugo
  iris = iris
  NoOne = NoOne
  Principal <- People
  Human <- People
  Disabled = {}
  WarehouseOwner <- Owners
  HomePersona <- Home
  ControlPlane <- ControlCapsule
  OwnerCapsule <- GovernanceCapsule
  BasePersona <- Personas
  BaseCapsule <- Capsules
  BaseContract <- Contracts
  Draft <- Drafts
  DatasetLevel <- Levels
  SeedMembership <- Members
  SeedBinding <- Bindings
  MinTtl = 1
  MaxTtl = 1
  MaxTime = 0
  MaxGrants = 0
  MaxAssignment = 5
  RequestName = {"role"}
  MaxRequests = 2
INVARIANT RequestTypeOK
INVARIANT EvidenceRestorable
PROPERTY RolesAreApprovedByTwo
CHECK_DEADLOCK FALSE
