\* The system stops where the route ids run out with nothing configured.
SPECIFICATION Spec
CONSTANTS
  None = None
  r1 = r1
  r2 = r2
  v1 = v1
  v2 = v2
  v3 = v3
  RouteIds <- MCRouteIds
  Routes <- MCRoutes
  Count <- MCCount
  MaxCount = 2
  Reborn = {0}
  VehicleIds <- MCVehicles
SYMMETRY Interchangeable
INVARIANTS
  BindingsAgree
  VehiclesOwned
  EndFindsItsRide
  StateMatchesPlayback
PROPERTIES
  StartsComplete
CHECK_DEADLOCK FALSE
