\* An administrator who left the control plane takes a role and comes back.
SPECIFICATION RequestSpec
CONSTANTS
  emma = emma
  dana = dana
  hugo = hugo
  iris = iris
  NoOne = NoOne
  Principal <- People
  Human <- People
  Disabled = {}
  WarehouseOwner <- Owners
  HomePersona <- Home
  ControlPlane <- ControlCapsule
  OwnerCapsule <- GovernanceCapsule
  BasePersona <- Personas
  BaseCapsule <- Capsules
  BaseContract <- Contracts
  Draft <- Drafts
  DatasetLevel <- Levels
  SeedMembership <- Members
  SeedBinding <- Bindings
  MinTtl = 1
  MaxTtl = 1
  MaxTime = 0
  MaxGrants = 0
  MaxAssignment = 5
  RequestName = {"role"}
  MaxRequests = 1
INVARIANT AdminsHoldNoRole
CHECK_DEADLOCK FALSE
