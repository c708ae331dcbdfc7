\* One tab, its requests and its tokens while assignments come and go.
SPECIFICATION SessionSpec
CONSTANTS
  hugo = hugo
  iris = iris
  NoOne = NoOne
  Principal <- People
  Human <- People
  Disabled = {}
  WarehouseOwner = {}
  HomePersona <- Home
  ControlPlane <- ControlCapsule
  OwnerCapsule <- GovernanceCapsule
  BasePersona <- Personas
  BaseCapsule <- Capsules
  BaseContract = {}
  Draft = {}
  DatasetLevel <- Levels
  SeedMembership <- Members
  SeedBinding = {}
  MinTtl = 1
  MaxTtl = 1
  MaxTime = 1
  MaxGrants = 0
  MaxAssignment = 3
  DemoSeat <- Seats
  DemoBinding = {}
  TokenLife = 1
  MaxTokens = 2
  MaxRequests = 3
INVARIANT SessionTypeOK
INVARIANT PageUsesOwnToken
PROPERTY NewerLoginSurvives
PROPERTY LapsedTokensStayRefusedInProduction
PROPERTY EveryWaitEnds
CHECK_DEADLOCK FALSE
