---------------------------- MODULE MapGeometry -----------------------------
(***************************************************************************)
(* The arithmetic of a map: longitudes across the antimeridian and the box *)
(* that frames them (map/bounds.ts, map/span.ts, map/focus.ts), the camera *)
(* a link carries (map/camera.ts), the gate a stated style passes and the  *)
(* features that are drawn (map/paint.ts, map/maplibre.ts), all under      *)
(* webapp/src/decorators/location.                                         *)
(*                                                                         *)
(* Degrees are whole numbers.  A box is [west, south, east, north] with    *)
(* west and east continuous across the antimeridian.  A color, a width or  *)
(* an opacity is the lexeme a document stated.                             *)
(***************************************************************************)
EXTENDS Integers, Sequences, FiniteSets, SequencesExt, FiniteSetsExt

CONSTANT Secant  \* 1/cos of the latitudes there are, as a whole number

NaN == 99999            \* a position that is not a finite number
Finite(p) == p.lat # NaN /\ p.lon # NaN

DataMaxZoom == 9
SeamZoom == 10
MaxZoom == 17
MercatorLimit == 85     \* 85.05, in whole degrees

Nothing == <<>>         \* no box

-----------------------------------------------------------------------------
(* Longitudes.                                                             *)
Ceil(a, b) == -((-a) \div b)

ShortestStep(d) ==
    CASE d > 180  -> d - 360 * Ceil(d - 180, 360)
      [] d < -180 -> d + 360 * Ceil(-180 - d, 360)
      [] OTHER    -> d

(* Each longitude by the shortest way round from the one before it.        *)
UnwrapLongitudes(lons) ==
    FoldLeft(LAMBDA out, lon :
                IF out = <<>> THEN <<lon>>
                ELSE Append(out, Last(out) + ShortestStep(lon - Last(out))),
             <<>>, lons)

\* On whatever turn of the globe the longitude is written.
InBox(lon, box) == \E k \in -3 .. 3 : box.west <= lon + 360 * k /\ lon + 360 * k <= box.east

SpansTheWorld(west, east) == east - west >= 360

IsRenderable(lat) == lat # NaN /\ lat \in -MercatorLimit .. MercatorLimit
IsPlaceableLongitude(lon) == lon # NaN /\ lon \in -180 .. 180

Around(lons, lats) ==
    LET Xs == ToSet(lons)  Ys == ToSet(lats)
    IN  [west |-> Min(Xs), south |-> Min(Ys), east |-> Max(Xs), north |-> Max(Ys)]

UnionOf(a, b) ==
    CASE a = Nothing -> b
      [] b = Nothing -> a
      [] OTHER -> [west |-> Min({a.west, b.west}), south |-> Min({a.south, b.south}),
                   east |-> Max({a.east, b.east}), north |-> Max({a.north, b.north})]

(* The reach of an ellipse around the map's own position, in degrees of    *)
(* latitude, widened in longitude by 1/cos(lat), which Secant holds: 0 at  *)
(* a pole, where nothing is drawn.                                         *)
EllipseBounds(ellipse, at) ==
    IF ellipse = Nothing \/ at = Nothing THEN Nothing
    ELSE LET reach == Max({ellipse.major, ellipse.minor})
             wide  == reach * Secant[at.lat]
         IN  IF reach <= 0 \/ wide = 0 THEN Nothing
             ELSE [west |-> at.lon - wide, south |-> at.lat - reach,
                   east |-> at.lon + wide, north |-> at.lat + reach]

(* An overlay is a record: markers [at, color], shapes, an ellipse and the *)
(* primary position, the last two possibly Nothing.                        *)
PointBounds(points) ==
    LET usable == SelectSeq(points, Finite)
    IN  IF usable = <<>> THEN Nothing
        ELSE Around(UnwrapLongitudes([i \in DOMAIN usable |-> usable[i].lon]),
                    [i \in DOMAIN usable |-> usable[i].lat])

MarkerPoints(o) == [i \in DOMAIN o.markers |-> o.markers[i].at]
ShapePoints(s) == FlattenSeq(s.rings)

\* One unwrap per marker or shape, and the union of what comes out.
PiecewiseBounds(o) ==
    UnionOf(FoldLeft(LAMBDA box, points : UnionOf(box, PointBounds(points)), Nothing,
                     [i \in DOMAIN o.markers |-> <<o.markers[i].at>>]
                         \o [i \in DOMAIN o.shapes |-> ShapePoints(o.shapes[i])]),
            EllipseBounds(o.ellipse, o.at))

\* Every marker, then every ring of every shape, in one unwrap.
OverlayBounds(o) ==
    UnionOf(PointBounds(MarkerPoints(o)
                        \o FlattenSeq([i \in DOMAIN o.shapes |-> ShapePoints(o.shapes[i])])),
            EllipseBounds(o.ellipse, o.at))

WithinMercator(box) ==
    IF box = Nothing THEN Nothing
    ELSE LET south == Max({-MercatorLimit, box.south})
             north == Min({MercatorLimit, box.north})
         IN  IF SpansTheWorld(box.west, box.east)
             THEN [west |-> -180, south |-> south, east |-> 180, north |-> north]
             ELSE [box EXCEPT !.south = south, !.north = north]

\* One marker and no shape is left to the camera of a single position.
FrameBounds(o) ==
    IF Len(o.markers) < 2 /\ o.shapes = <<>> /\ o.ellipse = Nothing THEN Nothing
    ELSE WithinMercator(OverlayBounds(o))

Degenerate(box) == box.east - box.west < 1 \/ box.north - box.south < 1

\* Twice the centre, so that it stays a whole number.
CenterOf(box) == [lat |-> (box.south + box.north) \div 2, lon |-> (box.west + box.east) \div 2]

(* Where a map opens before anything is framed.                            *)
OpeningAnchor(o) ==
    LET box == OverlayBounds([o EXCEPT !.ellipse = Nothing])
    IN  CASE o.at # Nothing -> [lat |-> o.at.lat, lon |-> o.at.lon]
          [] o.at = Nothing /\ box = Nothing -> [lat |-> 0, lon |-> 0]
          [] OTHER -> CenterOf(box)

\* focusOn: what one entry of the document occupies.
FocusOn(points) ==
    LET box == PointBounds(points)
    IN  IF points = <<>> THEN Nothing
        ELSE [box    |-> IF box.west = box.east /\ box.south = box.north THEN Nothing ELSE box,
              center |-> CenterOf(box)]

-----------------------------------------------------------------------------
(* The room left around a fit for the controls, per edge: scaled down      *)
(* together where they would take more than half of an axis.               *)
WithinAxis(near, far, size) ==
    LET total == near + far
        budget == Max({0, size}) \div 2
    IN  IF total <= budget \/ total = 0 THEN <<near, far>>
        ELSE <<(near * budget) \div total, (far * budget) \div total>>

FitPadding(width, height, chrome) ==
    LET want == IF chrome THEN [top |-> 48, right |-> 52, bottom |-> 46, left |-> 26]
                          ELSE [top |-> 24, right |-> 24, bottom |-> 24, left |-> 24]
        across == WithinAxis(want.left, want.right, width)
        down == WithinAxis(want.top, want.bottom, height)
    IN  [top |-> down[1], bottom |-> down[2], left |-> across[1], right |-> across[2]]

-----------------------------------------------------------------------------
(* The camera of a link, in units of 1/1000000 of a degree and 1/1000 of a *)
(* zoom level: written to five and two places.                             *)
Micro == 1000000
LatLimit == 8505112                     \* MERCATOR_LIMIT floored to five places
MercatorMicro == 85051128
RoundTo(x, unit) ==                     \* halves go away from zero
    IF x < 0 THEN -((unit - 2 * x) \div (2 * unit)) ELSE (2 * x + unit) \div (2 * unit)
WrapLongitude(lon) == ((lon + 180 * Micro) % (360 * Micro)) - 180 * Micro

HashForCamera(c) ==
    LET clamped == Max({-LatLimit * 10, Min({LatLimit * 10, c.lat})})
    IN  [zoom |-> RoundTo(c.zoom, 10), lat |-> RoundTo(clamped, 10),
         lon |-> RoundTo(WrapLongitude(c.lon), 10)]

CameraFromHash(h) ==
    IF \/ h.zoom \notin 0 .. MaxZoom * 100
       \/ h.lat * 10 \notin -MercatorMicro .. MercatorMicro
       \/ h.lon * 10 \notin -180 * Micro .. 180 * Micro
    THEN Nothing
    ELSE [zoom |-> h.zoom * 10, lat |-> h.lat * 10, lon |-> h.lon * 10]

-----------------------------------------------------------------------------
(* The style a document states, as lexemes, and the gate it passes: a      *)
(* number is a record [value], in hundredths; anything else is text.       *)
NumberWithin(raw, low, high) ==
    IF raw = Nothing \/ raw.kind # "number" \/ raw.value < low \/ raw.value > high
    THEN Nothing ELSE <<raw.value>>

IsHex(color) == color # Nothing /\ color.kind = "hex"

\* A width of nothing, or of no size, keeps the theme's.
StyleOf(s) ==
    LET width == NumberWithin(s.width, 0, 1000)
        alpha == NumberWithin(s.fillOpacity, 0, 100)
    IN  [width       |-> IF width = <<0>> THEN Nothing ELSE width,
         lineOpacity |-> NumberWithin(s.lineOpacity, 0, 100),
         color       |-> IF IsHex(s.color) THEN s.color ELSE Nothing,
         fill        |-> IF IsHex(s.color)
                         THEN [of |-> s.color, alpha |-> IF alpha = Nothing THEN 16 ELSE alpha[1]]
                         ELSE Nothing]

\* paintGeometry: what the layers draw, a theme value where none is stated.
Painted(style) ==
    [width |-> IF style.width = Nothing THEN 200 ELSE style.width[1],
     lineOpacity |-> IF style.lineOpacity = Nothing THEN 100 ELSE style.lineOpacity[1],
     color |-> IF style.color = Nothing THEN "theme" ELSE style.color.name]

(* shapesFeature: a shape that lost a ring is dropped whole, or a hole     *)
(* would become its outer boundary; longitudes are unwrapped across what   *)
(* is left.                                                                *)
UsableRings(shape) ==
    SelectSeq([i \in DOMAIN shape.rings |-> SelectSeq(shape.rings[i], Finite)],
              LAMBDA ring : Len(ring) >= 2)

Usable(shape) == shape.rings # <<>> /\ Len(UsableRings(shape)) = Len(shape.rings)

CloseRing(ring) == IF Head(ring) = Last(ring) THEN ring ELSE Append(ring, Head(ring))

FeaturesOf(shape, rings) ==
    IF ~shape.closed \/ Len(rings[1]) < 3
    THEN [i \in DOMAIN rings |-> [type |-> "line", rings |-> <<rings[i]>>, style |-> StyleOf(shape)]]
    ELSE <<[type |-> "polygon", rings |-> [i \in DOMAIN rings |-> CloseRing(rings[i])],
            style |-> StyleOf(shape)]>>

ShapesFeature(shapes) ==
    LET kept  == SelectSeq(shapes, Usable)
        flat  == FlattenSeq([i \in DOMAIN kept |-> FlattenSeq(UsableRings(kept[i]))])
        lons  == UnwrapLongitudes([i \in DOMAIN flat |-> flat[i].lon])
        size(i, r) == Len(UsableRings(kept[i])[r])
        before(i, r) ==   \* how many vertices come before ring r of shape i
            FoldLeft(+, 0, [j \in 1 .. i - 1 |-> Len(FlattenSeq(UsableRings(kept[j])))])
              + FoldLeft(+, 0, [q \in 1 .. r - 1 |-> size(i, q)])
        placed(i) == [r \in DOMAIN UsableRings(kept[i]) |->
                        [v \in 1 .. size(i, r) |->
                            [lat |-> flat[before(i, r) + v].lat, lon |-> lons[before(i, r) + v]]]]
    IN  FlattenSeq([i \in DOMAIN kept |-> FeaturesOf(kept[i], placed(i))])

(* An ellipse or an accuracy circle, at its four quarter turns: rotated in *)
(* meters first and then converted, and closed with its own first vertex.  *)
Cos4(q) == <<1, 0, -1, 0>>[(q % 4) + 1]
Sin4(q) == <<0, 1, 0, -1>>[(q % 4) + 1]

GeodesicRing(at, major, minor, quarter) ==
    IF ~Finite(at) \/ major <= 0 \/ minor <= 0 \/ Secant[at.lat] = 0 THEN Nothing
    ELSE LET secant == Secant[at.lat]
             vertex(i) ==
                 LET across == minor * Cos4(i)
                     along  == major * Sin4(i)
                 IN  [lon |-> at.lon + secant * (across * Cos4(quarter) + along * Sin4(quarter)),
                      lat |-> at.lat + (along * Cos4(quarter) - across * Sin4(quarter))]
             ring == [i \in 1 .. 4 |-> vertex(i - 1)]
         IN  Append(ring, ring[1])
=============================================================================
