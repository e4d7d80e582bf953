CONSTANTS
    Width = 3
    Height = 2
    Radius = 1
    Dts <- MCDts
    Criteria <- MCCriteria
    Lowest <- MCLowest
    SensorSize <- MCSensorSize
    Cells <- MCCells
    CellWindow = 2
    Windows = {0, 2}
    MaxAreaPerEvent = 2
    CLogC <- MCCLogC
    Columns = 3
    Rows = 1
    Options <- MCOptions
    InitialColors <- MCInitialColors
    Colors <- MCColors
    Colormaps <- MCColormaps
    Backgrounds <- MCBackgrounds
    CounterMax = 1
    Forever = 1000
    Tiny = 1
    Outliers = {0, 1}
    Taus = {4}
    Project <- MCProject
    AxesAt <- MCAxesAt
    AxesValue = 3
    Views <- MCViews
    InitialView = "left"
    MapSize <- MCMapSize
    Lens <- MCNoLens
    Programs <- MCPrograms
SPECIFICATION Spec
PROPERTIES
    ZeroDistortionMapsPointToItself
CHECK_DEADLOCK FALSE
