\* Just-in-time grants under membership changes, offboarding, seats granted again
\* and a wall clock that jumps in both directions.
SPECIFICATION Spec
CONSTANTS
  emma = emma
  dana = dana
  hugo = hugo
  iris = iris
  NoOne = NoOne
  Principal <- JitPrincipal
  Human <- JitPrincipal
  Disabled = {}
  WarehouseOwner = {}
  HomePersona <- JitHome
  ControlPlane <- ControlCapsule
  OwnerCapsule <- GovernanceCapsule
  BasePersona <- JitPersonas
  BaseCapsule <- JitCapsules
  BaseContract <- JitContracts
  Draft = {}
  DatasetLevel <- Levels
  SeedMembership <- JitMembers
  SeedBinding <- JitBindings
  MinTtl = 1
  MaxTtl = 2
  MaxTime = 1
  MaxGrants = 2
  MaxAssignment = 4
INVARIANT TypeOK
INVARIANT Restorable
INVARIANT OpenGrantsFollowAssignment
INVARIANT DualControl
PROPERTY DecisionsAreFinal
CONSTRAINT Explored
CHECK_DEADLOCK FALSE
