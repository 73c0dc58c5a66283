\* One bot at a time is enough for an event to find its route gone.
SPECIFICATION Spec
CONSTANTS
  None = None
  r1 = r1
  r2 = r2
  v1 = v1
  v2 = v2
  v3 = v3
  RouteIds <- MCRouteIds
  Routes <- MCRoutes
  Count <- MCCount
  MaxCount = 2
  Reborn = {}
  VehicleIds <- MCVehicles
PROPERTIES
  EventsFindTheirRoute
CHECK_DEADLOCK FALSE
