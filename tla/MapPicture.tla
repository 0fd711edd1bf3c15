----------------------------- MODULE MapPicture -----------------------------
(***************************************************************************)
(* What a map draws and where it looks: the style of the two tiers         *)
(* (map/maplibre.ts), the overlay and its images (map/overlay.ts,          *)
(* map/paint.ts) and the camera that frames it (map/use_map_instance.ts),  *)
(* all under webapp/src/decorators/location, over the arithmetic of        *)
(* MapGeometry.  Screen layout, widths by zoom and fonts are left out.     *)
(***************************************************************************)
EXTENDS MapGeometry

CONSTANTS
    Places,      \* positions, records [lat, lon]; lat and lon may be NaN
    Shapes,      \* shapes a document may hold
    Colors,      \* marker colors
    Points,      \* documents of one point: [at, color, positioned]
    Packages,    \* detail packages an install may have: [name, box]
    Zooms,       \* zoom levels of the camera
    MaxMarkers,  \* bound: markers in one document
    MaxShapes    \* bound: shapes in one document

ASSUME BoundAssumption == MaxMarkers \in Nat /\ MaxShapes \in Nat

ASSUME PictureAssumption ==
    /\ Zooms \subseteq 0 .. MaxZoom
    /\ \A point \in Points : point.color \in Colors

-----------------------------------------------------------------------------
(* The style: what draws what, from which zoom to below which.  The global *)
(* tier's layers stop at `cap`; country names hand over to towns at 6, and *)
(* the land is never capped, so an uncovered frame is never white.         *)
Layer(concern, min, max) == [concern |-> concern, min |-> min, max |-> max]
Uncapped == 99

GroundLayers(cap) ==
    {Layer("land", 0, Uncapped)}
        \cup {Layer(c, 0, cap) : c \in {"urban", "water", "waterway", "boundary", "rail", "road"}}

NameLayers(cap) ==
    {Layer("country", 0, 6), Layer("admin-1", 5, cap), Layer("aerodrome", 6, cap),
     Layer("place", 3, cap)}

GlobalLayers(cap) == GroundLayers(cap) \cup NameLayers(cap)

DetailGround ==
    {Layer(c, SeamZoom, Uncapped) : c \in {"water", "waterway", "boundary", "rail", "runway", "road"}}

DetailNames ==
    {Layer(c, SeamZoom, Uncapped) : c \in {"water name", "aerodrome", "place"}}
        \cup {Layer("road name", 12, Uncapped)}

DetailLayers == DetailGround \cup DetailNames

\* MapLibre: from min, inclusive, to max, exclusive.
DrawnAt(layers, zoom) == {l.concern : l \in {k \in layers : k.min <= zoom /\ zoom < k.max}}

Intersects(a, b) ==
    a.west <= b.east /\ a.east >= b.west /\ a.south <= b.north /\ a.north >= b.south

\* The same question asked of the middle of the view.
CoveredAtCenter(details, view) ==
    LET c == CenterOf(view)
    IN  \E d \in details : Intersects([west |-> c.lon, east |-> c.lon, south |-> c.lat, north |-> c.lat], d.box)

CoveredBy(details, view) == \E d \in details : Intersects(view, d.box)

\* syncGlobalReach, and the first style's cap.
GlobalCap(details, view) == IF CoveredBy(details, view) THEN SeamZoom ELSE MaxZoom

-----------------------------------------------------------------------------
(* A map in use: the document it shows grows or is replaced under it, the  *)
(* reader pans and presses Reset.  The seam is decided again when a move   *)
(* ends, and not before: the frames of a gesture are drawn with the cap of *)
(* where the camera last came to rest.                                     *)
VARIABLES
    overlay,   \* what the props ask for
    details,   \* the packages in the style
    lens,      \* the view: its box and zoom
    cap,       \* the global layers' maxzoom
    moving,    \* a gesture is under way: no moveend yet
    images,    \* marker images registered with the map
    icons      \* the images the pin source's features name

picture_vars == <<overlay, details, lens, cap, moving, images, icons>>

\* A document of one point: GeoJSON's has no primary position, an event's is it.
OnePoint(point) ==
    [markers |-> <<[at |-> point.at, color |-> point.color]>>, shapes |-> <<>>, ellipse |-> Nothing,
     at |-> IF point.positioned THEN point.at ELSE Nothing]

PointBox(p) == [west |-> p.lon, south |-> p.lat, east |-> p.lon, north |-> p.lat]

IconsOf(o) == {o.markers[i].color : i \in DOMAIN o.markers}

\* Only for the first document of the map.
AddImagesOnce(o) == images' = IF images = {} THEN IconsOf(o) ELSE images

\* addMarkerImages: at every draw, since a map outlives its document.
AddImages(o) == images' = images \cup IconsOf(o)

\* jumpTo, and fitBounds without an animation: a gesture is stopped, and
\* moveend is heard before a frame is drawn.
Look(box, zoom) ==
    /\ lens' = [box |-> box, zoom |-> zoom]
    /\ cap' = GlobalCap(details, box)
    /\ moving' = FALSE

(* Where a redraw takes the camera: a fit for a box of some size, a jump   *)
(* no deeper than the data for one without, and nowhere for a document     *)
(* that has neither a box nor a primary position.                          *)
FrameCenter(o) ==
    LET box == FrameBounds(o) IN
    CASE box # Nothing -> CenterOf(box)
      [] box = Nothing /\ o.at # Nothing -> o.at
      [] OTHER -> Nothing

FrameCamera(o) ==
    LET box == FrameBounds(o) IN
    \/ /\ box # Nothing /\ ~Degenerate(box)
       /\ \E z \in Zooms : Look(box, z)
    \/ /\ box # Nothing => Degenerate(box)
       /\ FrameCenter(o) # Nothing
       /\ \E z \in Zooms : z <= DataMaxZoom /\ Look(PointBox(FrameCenter(o)), z)
    \/ FrameCenter(o) = Nothing /\ UNCHANGED <<lens, cap, moving>>

Show(o) ==
    /\ overlay' = o
    /\ AddImages(o)
    /\ icons' = IconsOf(o)
    /\ FrameCamera(o)
    /\ UNCHANGED details

PictureInit ==
    \E point \in Points :
        /\ overlay = OnePoint(point)
        /\ details \in SUBSET Packages
        /\ lens = [box |-> PointBox(OpeningAnchor(overlay)), zoom |-> 0]
        /\ cap = GlobalCap(details, lens.box) /\ moving = FALSE
        /\ images = {point.color} /\ icons = {point.color}

\* The ellipse is of an event alone.
AddMarker(p, c) ==
    /\ Len(overlay.markers) < MaxMarkers
    /\ Show([overlay EXCEPT !.markers = Append(@, [at |-> p, color |-> c]), !.ellipse = Nothing])

AddShape(s) ==
    /\ Len(overlay.shapes) < MaxShapes
    /\ Show([overlay EXCEPT !.shapes = Append(@, s)])

AddEllipse(size) ==
    /\ overlay.at # Nothing /\ Len(overlay.markers) = 1 /\ overlay.ellipse = Nothing
    /\ Show([overlay EXCEPT !.ellipse = [major |-> size, minor |-> 1]])

AnotherDocument(point) ==
    /\ OnePoint(point) # overlay
    /\ Show(OnePoint(point))

Reset == Show(overlay)

\* The view beside a box: they touch along one edge.
Beside(box) == [box EXCEPT !.west = box.east, !.east = 2 * box.east - box.west]

\* A frame of the reader's own gesture: anywhere, at any zoom the camera has,
\* over layers that are still those of the last moveend.
Pan(box, zoom) ==
    /\ lens # [box |-> box, zoom |-> zoom]
    /\ lens' = [box |-> box, zoom |-> zoom]
    /\ moving' = TRUE
    /\ UNCHANGED <<overlay, details, cap, images, icons>>

\* moveend: the seam follows the camera.
MoveEnd ==
    /\ moving
    /\ moving' = FALSE /\ cap' = GlobalCap(details, lens.box)
    /\ UNCHANGED <<overlay, details, lens, images, icons>>

PictureNext ==
    \/ \E p \in Places, c \in Colors : AddMarker(p, c)
    \/ \E point \in Points : AnotherDocument(point)
    \/ \E size \in {1, 4} : AddEllipse(size)
    \/ \E s \in Shapes : AddShape(s)
    \/ Reset
    \/ \E d \in Packages, z \in Zooms : Pan(d.box, z) \/ Pan(Beside(d.box), z)
    \/ MoveEnd

PictureSpec == PictureInit /\ [][PictureNext]_picture_vars

-----------------------------------------------------------------------------
OverlayPoints(o) ==
    ToSet(SelectSeq(MarkerPoints(o) \o FlattenSeq([i \in DOMAIN o.shapes |-> ShapePoints(o.shapes[i])]),
                    Finite))

\* The link reads back to the place and the zoom it was made from, up to what
\* five and two places keep.
LinkOpensHere ==
    LET at == CenterOf(lens.box)
    IN  lens.zoom < MaxZoom => \A drift \in {-4, 0, 4} :
            LET back == CameraFromHash(HashForCamera(
                    [zoom |-> lens.zoom * 1000 + 4, lat |-> at.lat * Micro + drift, lon |-> at.lon * Micro + drift]))
            IN  /\ back # Nothing
                /\ back.zoom = lens.zoom * 1000
                /\ back.lat = at.lat * Micro
                /\ (back.lon - at.lon * Micro) % (360 * Micro) = 0

PaddingLeavesRoom ==
    \A width \in {0, 60, 320}, height \in {0, 80, 200}, chrome \in BOOLEAN :
        LET pad == FitPadding(width, height, chrome)
        IN  pad.left + pad.right <= width \div 2 /\ pad.top + pad.bottom <= height \div 2

(* The frame holds everything and no more: every marker and vertex has a   *)
(* copy between its west and its east, and a document that fits in an arc  *)
(* of less than half the globe is not framed wider than that arc, whatever *)
(* antimeridian it crosses and in whatever order it lists its points.  The *)
(* link to a larger map opens where the reader was looking, whatever copy  *)
(* of the world the camera had drifted to.  And the frame is never padded  *)
(* away: on the smallest canvas half of each side is left to the map.      *)
FrameIsExact ==
    LET box == FrameBounds([overlay EXCEPT !.ellipse = Nothing])
        points == OverlayPoints(overlay)
    IN  /\ LinkOpensHere
        /\ PaddingLeavesRoom
        /\ box # Nothing =>
               /\ \A p \in points : InBox(p.lon, box)
               /\ \A w \in {p.lon : p \in points}, a \in {0, 1, 2, 20, 40, 90} :
                      (\A p \in points : InBox(p.lon, [west |-> w, east |-> w + a]))
                          => box.east - box.west <= a

(* What is drawn is what the document says: every feature's outer ring is  *)
(* the outer ring of the shape it came from, hole for hole, at the same    *)
(* meridians, in one run that no two neighbours break by more than half a  *)
(* turn, and within the frame, as an ellipse is at every tilt.  Its paint  *)
(* is the theme's or a color and a width this build admits, and no marker  *)
(* names an image the map does not hold, or it would be drawn as nothing.  *)
DrawnAsStated ==
    LET drawn == ToSet(ShapesFeature(overlay.shapes))
        vertices(r) == {<<r[v].lat, r[v].lon % 360>> : v \in DOMAIN r}
        box == FrameBounds([overlay EXCEPT !.ellipse = Nothing])
        around == EllipseBounds(overlay.ellipse, overlay.at)
    IN  /\ icons \subseteq images
        /\ \A f \in drawn :
               /\ f.type = "polygon" =>
                      \E i \in DOMAIN overlay.shapes :
                          LET s == overlay.shapes[i]
                          IN  /\ s.closed /\ Len(s.rings) = Len(f.rings)
                              /\ vertices(f.rings[1]) \subseteq vertices(s.rings[1])
               /\ \A r \in DOMAIN f.rings : \A v \in DOMAIN f.rings[r] :
                      /\ InBox(f.rings[r][v].lon, box)
                      /\ v > 1 /\ (f.type = "line" \/ v < Len(f.rings[r])) =>
                             f.rings[r][v].lon - f.rings[r][v - 1].lon \in -180 .. 180
               /\ Painted(f.style).width \in 1 .. 1000
               /\ Painted(f.style).color \in {"theme"} \cup
                      {s.color.name : s \in {t \in ToSet(overlay.shapes) : IsHex(t.color)}}
        /\ around # Nothing => \A q \in 0 .. 3 :
               LET ring == GeodesicRing(overlay.at, overlay.ellipse.major, overlay.ellipse.minor, q)
               IN  /\ ring[1] = Last(ring)
                   /\ \A v \in DOMAIN ring : /\ ring[v].lon \in around.west .. around.east
                                             /\ ring[v].lat \in around.south .. around.north

PictureTypeOK ==
    /\ cap \in {SeamZoom, MaxZoom} /\ details \subseteq Packages
    /\ images \subseteq Colors /\ icons \subseteq Colors
    /\ lens.zoom \in Zooms \cup {0} /\ moving \in BOOLEAN

\* What is drawn at each zoom below the camera's limit, for either cap.
DrawnZooms == (Zooms \cup {0}) \ {MaxZoom}
GlobalAt == [reach \in {SeamZoom, MaxZoom} |-> [zoom \in DrawnZooms |-> DrawnAt(GlobalLayers(reach), zoom)]]
DetailAt == [zoom \in DrawnZooms |-> DrawnAt(DetailLayers, zoom)]
GroundConcerns == {"water", "road", "boundary", "rail"}

(* The seam: where a package reaches the view, nothing of the global tier  *)
(* that a package also draws is drawn beside it; elsewhere it is drawn at  *)
(* every zoom below the camera's limit.  So it is of every view the camera *)
(* comes to rest on, however it got there, and below the seam of every     *)
(* frame of a gesture; at the seam and above, a gesture's frames keep the  *)
(* tiers of where it set out (syncGlobalReach on moveend), and nothing is  *)
(* said of them.  Views that run past the antimeridian are left out: a     *)
(* package's box is not unwrapped with them.                               *)
SeamIsWhole ==
    /\ PictureTypeOK
    /\ lens.box.west >= -180 /\ lens.box.east <= 180 /\ lens.zoom < MaxZoom
       /\ (moving => lens.zoom < SeamZoom) =>
           LET global == GlobalAt[cap][lens.zoom]
               detail == DetailAt[lens.zoom]
           IN  IF \E d \in details : Intersects(lens.box, d.box)
               THEN global \cap detail = {} /\ GroundConcerns \subseteq global \cup detail
               ELSE GroundConcerns \subseteq global

(* "An extent-only map draws its overlay and frames it"                   *)
(* (map/use_map_instance.ts): the document the map is given is in view.    *)
DocumentIsFramed ==
    [][overlay' # overlay => Intersects(lens'.box, OverlayBounds(overlay'))]_picture_vars
=============================================================================
