SPECIFICATION FairSpec
CONSTANTS
  Places <- MCPlaces
  Marks <- OutAndBack
  Radius = 0
  Step = 2
  Reach = 2
  Stream = 1
  MaxSteps = 1
  Routings <- MCRoutings
  Gun = 0
  Horizon = 6
  MaxCrashes = 1
  None = None
INVARIANTS TypeOK RowMatchesTrack RouteStillVisits
PROPERTIES IsVoyage TickIsBounded CaughtUp
