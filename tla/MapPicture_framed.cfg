SPECIFICATION PictureSpec
CONSTANTS
    Places <- MCPlaces
    Shapes <- MCShapes
    Colors <- MCColors
    Points <- MCPoints
    Secant <- PictureSecant
    Packages <- MCPackages
    Zooms <- MCZooms
    MaxMarkers = 2
    MaxShapes = 1
CHECK_DEADLOCK FALSE
PROPERTY DocumentIsFramed
