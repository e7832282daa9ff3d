CONSTANTS
  Users = {u1, u2}
  Requests = {r1, r2}
  NoUser = NoUser
  Venues = {"internal"}
  Readiness = {TRUE}
  Local = FALSE
  Resend = FALSE
  MaxPayments = 2
  MaxMarkets = 2
  Faults = 0
SPECIFICATION ProgressSpec
PROPERTIES LaunchesEnd PagesSettle ScriptsKeepTheirWord
CHECK_DEADLOCK FALSE
