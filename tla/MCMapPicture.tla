---------------------------- MODULE MCMapPicture ----------------------------
(* The model values of the runs of MapPicture: places either side of the   *)
(* antimeridian and of Greenwich, a ring, a donut, a broken donut and a    *)
(* line across the antimeridian, and a package on the prime meridian.      *)
EXTENDS MapPicture

Spot(lat, lon) == [lat |-> lat, lon |-> lon]

MCPlaces == {Spot(0, 179), Spot(0, -170), Spot(60, 1)}
MCColors == {"friendly", "hostile"}
Placed(at, color, positioned) == [at |-> at, color |-> color, positioned |-> positioned]
MCPoints == {Placed(Spot(0, 179), "friendly", TRUE), Placed(Spot(0, -170), "hostile", FALSE),
             Placed(Spot(60, 1), "hostile", TRUE), Placed(Spot(60, 1), "friendly", FALSE)}
PictureSecant == [lat \in -90 .. 90 |-> IF lat = 0 THEN 1 ELSE IF lat = 60 THEN 2 ELSE 0]

Stated(color, width) == [color |-> color, width |-> width, fillOpacity |-> Nothing, lineOpacity |-> Nothing]
Shape(closed, rings, style) == [closed |-> closed, rings |-> rings] @@ style

Ring == <<Spot(0, 178), Spot(0, -178), Spot(4, -178), Spot(4, 178)>>
Hole == <<Spot(1, 179), Spot(1, -179), Spot(2, -179)>>
Unstyled == Stated(Nothing, Nothing)
Odd == Stated([kind |-> "word", name |-> "red"], [kind |-> "number", value |-> 0])
Red == Stated([kind |-> "hex", name |-> "red"], [kind |-> "number", value |-> 300])

MCShapes == {
    Shape(TRUE, <<Ring, Hole>>, Unstyled),
    Shape(TRUE, <<<<Spot(NaN, 178)>>, Hole>>, Odd),
    Shape(FALSE, <<<<Spot(0, 170), Spot(0, -170)>>>>, Red) }

MCPackages == {[name |-> "africa", box |-> [west |-> -10, south |-> -5, east |-> 10, north |-> 5]],
               [name |-> "europe", box |-> [west |-> 0, south |-> 40, east |-> 10, north |-> 70]]}
MCZooms == {9, 10}
=============================================================================
