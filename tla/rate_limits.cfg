\* Budgets and the login lockout, with maps that are full all the time and
\* requests that keep coming.
SPECIFICATION Spec
CONSTANTS
  office = office
  home = home
  emma = emma
  hugo = hugo
  Free = Free
  Peer <- Peers
  Principal <- People
  User <- People
  Window = 2
  IpMax = 2
  PrincipalMax = 2
  ExpensiveMax = 1
  MutationMax = 1
  LoginMax = 2
  TrackedKeys = 1
  MaxAttempts = 2
  AttemptWindow = 2
  Block = 2
  TrackedAttempts = 2
INVARIANT TypeOK
INVARIANT BudgetsHold
PROPERTY RetryAfterIsExact
PROPERTY BlocksStand
CHECK_DEADLOCK FALSE
