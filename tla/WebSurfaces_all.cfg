SPECIFICATION AllSpec
CONSTANTS
    Places <- MCPlaces
    Shapes <- MCShapes
    Colors <- MCColors
    Points <- MCPoints
    Packages <- MCPackages
    Zooms <- MCZooms
    MaxMarkers = 2
    MaxShapes = 1
    Posts <- MCPosts
    Airports <- MCAirports
    Secant <- MCSecant
    MaxEvents = 3
    MaxVertices = 20
    MaxChecklistKinds = 2
    SummaryWidth = 60
    MaxFeatures = 2
    MaxRows = 2
    MaxPeriods = 1
    MaxArea = 4
    MaxAirfields = 4
    MaxShows = 2
    CoordinateTokens <- ReadingTokens
    Drifts <- ReadingDrifts
    Links <- ReadingLinks
    Shells <- ReadingShells
    MaxClicks = 3
    MaxToggles = 1
    Indicators <- CyberIndicators
    WellShaped <- CyberWellShaped
    WebLinks <- CyberWebLinks
    DtgQueries <- CyberDtgQueries
    Plain <- CyberPlain
    Replies <- CyberReplies
    MaxFollowed = 1
    AirfieldLinks <- AirfieldLinkCases
    IdentCodes <- AirfieldIdents
    IataCodes <- AirfieldIatas
    AirfieldPositions <- AirfieldPlaces
    DrawablePositions <- AirfieldDrawable
    AirfieldReplies <- AirfieldReplyCases
    t1 = t1
    e1 = e1
    e2 = e2
    location = location
    cot = cot
    Tab = {t1}
    Editor = {e1, e2}
    Section = {location, cot}
    TabOf <- SameTab
    SectionOf <- Sections
    Picker = {}
    MaxChoice = 1
    MaxSaves = 2
CHECK_DEADLOCK FALSE
INVARIANTS FrameIsExact DrawnAsStated SeamIsWhole ShapesAreWhole ReadingsNameTheirCell AuthorsTextIsVouched PageShowsTheServersReadings LoadsNeverRevertASave SavesComeFromARead WaitsAreForRequests CardAndPanelAgree
PROPERTIES PageDrawsTheCard ShowGoesSomewhere PanelCarriesTheCard OtherSectionsKept
