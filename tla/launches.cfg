CONSTANTS
  Users = {u1, u2}
  Requests = {r1, r2}
  Wallets = {w1, w2}
  NoUser = NoUser
  Venues = {"internal", "meteora"}
  Readiness = {TRUE}
  Local = FALSE
  Resend = TRUE
  MaxPayments = 2
  MaxMarkets = 2
  Faults = 1
SPECIFICATION LaunchesSpec
SYMMETRY Perms
INVARIANTS PaymentsHold PaidToProven
PROPERTIES ListedMarketsKept SerialEscrowTrue
CHECK_DEADLOCK FALSE
