\* Every question to the decision point, the warehouse and the compiler, in every
\* state of the store, for five imports.
SPECIFICATION DecisionSpec
CONSTANTS
  emma = emma
  hugo = hugo
  robo = robo
  NoOne = NoOne
  Missing = Missing
  NoRecord = NoRecord
  Nesting <- Nestings
  Null = Null
  Scalar <- Scalars
  Name <- Names
  MaxHeight = 4
  AnyValue = AnyValue
  Principal <- People
  Human <- Humans
  Disabled = {}
  WarehouseOwner = {}
  HomePersona <- Home
  ControlPlane <- ControlCapsule
  OwnerCapsule <- OwnersCapsule
  BasePersona <- Personas
  BaseCapsule <- Capsules
  BaseContract <- Contracts
  Draft = {}
  DatasetLevel <- Levels
  SeedMembership <- Members
  SeedBinding <- Bindings
  MinTtl = 1
  MaxTtl = 1
  MaxTime = 1
  MaxGrants = 1
  MaxAssignment = 4
  Policy <- Imports
  Record <- Records
  CallerRecord <- CallerRecords
  DatasetFields <- Fields
  ControlDataset <- Control
  JitDenyFields <- JitHidden
  WarehouseRow <- Facts
  RoleDraft <- Drafts
INVARIANT AllowedIsEntitled
INVARIANT DatasetReadsAreTruthful
INVARIANT WarehouseReadsAreTruthful
INVARIANT NativePoliciesNeverWiden
INVARIANT ElasticsearchFiltersAreExact
CHECK_DEADLOCK FALSE
