SPECIFICATION Spec
CONSTANTS
  None = None
  All = All
  Regions <- MCRegions
  GeneralsOf <- MCGeneralsOf
  PlotsOfGeneral <- MCPlotsOfGeneral
  SensorsOfRegion <- MCSensorsOfRegion
  Aggregable = {"T"}
  YearsOf <- MCYearsOf
  Steps = {"raw", "hour"}
  Projects <- MCRegions
  GroupsOf <- MCGroupsOf
  PlotsOfGroup <- MCPlotsOfGeneral
  Sources <- MCSources
  StatusOf <- MCStatusOf
  FirstYear = 1
  LastYear = 2
  EProjects <- MCRegions
  EGroups <- MCEGroups
  EPlots <- MCEPlots
  EDefault <- MCEDefault
  GroupOfPlot <- MCGroupOfPlot
  StationsAt <- MCStationsAt
  SensorsAt <- MCSensorsAt
  ESensors <- MCESensors
  Raw = {"H"}
  Defaults <- MCDefaults
  Years = {1, 2}
  MaxViews = 3
  Parallel = 2
  Backgrounds <- MCBackgrounds
  FirstMap = "wms"
  Urls = {"u1", "u2"}
  LayersOf <- MCLayersOf
  MapPlots <- MCMapPlots
  MaxHovered = 1
  MaxClicks = 3
  MaxFlights = 2
  MaxFails = 1
CHECK_DEADLOCK FALSE
INVARIANTS
  PagesCurrent
  BusyExact
  SelectionExact
  SessionExportable
  OutputComplete
