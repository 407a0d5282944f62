SPECIFICATION Spec
CONSTANTS
  Lifecycle <- Lifecycles
  Label <- Labels
  Zone <- Zones
  MaxObjects = 2
  Observation <- Observations
  Exporter = {x1, x2}
  Directory = {"d1", "d2"}
  ExportRequest <- Requests
  Clock = {7}
  Source = {"front", "back"}
  MAX_EVENTS = 2
  MaxMishaps = 1
  None = None
  Torn = Torn
  p1 = p1
  p2 = p2
  p3 = p3
  misfit = misfit
  Plugin <- Plugins
  Offer <- Offers
  PLUGIN_CONTRACT_VERSION <- V1
  PlatformVersion <- V0_1
  MaxInstances = 2
INVARIANTS ReplayedIsExported UnreadableIsExplained ReplayDecidesAsLive StopReachesAll HandlesAreLive
PROPERTIES BundlesAreImmutable
CHECK_DEADLOCK FALSE
SYMMETRY Symmetry
