\* A demo: seats put back at a restart bring old tokens back.
SPECIFICATION SessionSpec
CONSTANTS
  hugo = hugo
  iris = iris
  NoOne = NoOne
  Principal <- People
  Human <- People
  Disabled = {}
  WarehouseOwner = {}
  HomePersona <- Home
  ControlPlane <- ControlCapsule
  OwnerCapsule <- GovernanceCapsule
  BasePersona <- Personas
  BaseCapsule <- Capsules
  BaseContract = {}
  Draft = {}
  DatasetLevel <- Levels
  SeedMembership <- Members
  SeedBinding = {}
  MinTtl = 1
  MaxTtl = 1
  MaxTime = 1
  MaxGrants = 0
  MaxAssignment = 3
  DemoSeat <- Seats
  DemoBinding = {}
  TokenLife = 1
  MaxTokens = 2
  MaxRequests = 3
PROPERTY LapsedTokensStayRefused
CHECK_DEADLOCK FALSE
