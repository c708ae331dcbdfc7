\* Role drafts applied, replaced and shared, members removed and capsules
\* offboarded, under separation of duties and the last-administrator guard.
SPECIFICATION Spec
CONSTANTS
  emma = emma
  dana = dana
  hugo = hugo
  iris = iris
  NoOne = NoOne
  Principal <- RolePrincipal
  Human <- RolePrincipal
  Disabled = {}
  WarehouseOwner <- Owners
  HomePersona <- RoleHome
  ControlPlane <- ControlCapsule
  OwnerCapsule <- GovernanceCapsule
  BasePersona <- RolePersonas
  BaseCapsule <- RoleCapsules
  BaseContract <- RoleContracts
  Draft <- RoleDrafts
  DatasetLevel <- Levels
  SeedMembership <- RoleMembers
  SeedBinding <- RoleBindings
  MinTtl = 1
  MaxTtl = 2
  MaxTime = 0
  MaxGrants = 0
  MaxAssignment = 7
INVARIANT AdminSurvives
INVARIANT NoSodConflict
INVARIANT OneManagedRole
INVARIANT InactiveCapsulesEmpty
INVARIANT Restorable
CHECK_DEADLOCK FALSE
