SPECIFICATION Spec
CONSTANTS
  None = None
  Text = Text
  ObjectText = ObjectText
  AProjects <- MCProjects
  AGroups <- MCGroups
  APlots <- MCPlots
  AStations <- MCStations
  ASensorsAt <- MCSensorsAt
  ASensors <- MCSensors
  AggregationsOf <- MCAggregations
  ViewTimes <- MCViewTimes
  MaxSeries = 2
  FullRange = 16
  MinRange = 9
  MSets = {"x", "y"}
  SetPlots <- MCSetPlots
  SetSensors <- MCSetSensors
  Limits <- MCLimits
  Newest <- MCNewest
  DefaultGroup <- MCDefault
  Elapsed <- MCElapsed
  Voltage <- MCVoltage
  VoltageLimits <- MCVoltageLimits
  FirstNotes <- MCNotes
  Terms <- MCTerms
  MaxTasks = 4
  MaxClicks = 5
  MaxFlights = 2
  MaxFails = 1
CHECK_DEADLOCK FALSE
INVARIANTS
  StoreExact
  SelectorExact
  DiagramExact
  WheelWithin
  MonitoringExact
  PlotClassExact
  StatusExact
  DialogExact
  ReportExact
  SensorPageExact
