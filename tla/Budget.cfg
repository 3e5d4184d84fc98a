\* Two workspaces, two projects, a request with two runs beside another request,
\* two policies that differ in currency, cap, rate and end, and two months.
SPECIFICATION Spec
CONSTANTS
  o1 = o1
  o2 = o2
  p1 = p1
  p2 = p2
  a1 = a1
  a2 = a2
  a3 = a3
  GroupOf <- Requests
  DispatchOf <- Runs
  Units <- Bounds
  ProjectOf <- Mixed
  Home <- AllHome
  Denominator = 2
  NoOrganization = NoOrganization
  NoPolicy = NoPolicy
  NoReservation = NoReservation
  NoUsage = NoUsage
  Organizations = {o1, o2}
  Projects = {p1, p2}
  Attempts = {a1, a2, a3}
  KeyAttempts = {a1, a2}
  Policies <- TwoPolicies
  MaxMonth = 2
SYMMETRY Retries
INVARIANTS CallsAreHeld SettledWithinReservation HoldsStayHome OneRunPerRequest OneCurrencyPerMonth
PROPERTIES SpendGrowsWithinCaps CrossingsAreAlerted
CHECK_DEADLOCK FALSE
