SPECIFICATION Spec
CONSTANTS
  Users = {u1}
  Requests = {r1, r2}
  NoUser = NoUser
  Venues = {"internal"}
  Readiness = {TRUE}
  Local = FALSE
  Resend = TRUE
  MaxPayments = 1
  MaxMarkets = 2
  Faults = 0
INVARIANT OnePaymentOneMarket
CHECK_DEADLOCK FALSE
