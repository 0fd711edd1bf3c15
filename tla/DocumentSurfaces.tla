-------------------------- MODULE DocumentSurfaces --------------------------
(***************************************************************************)
(* One stamped post and every surface it is seen on: the card under it     *)
(* (CotPostBody, GeoJsonPostBody, ReportPostBody, AirfieldsPostBody), the  *)
(* "Show on the map" buttons of the card, the sidebar panel, and the map   *)
(* page of webapp/src/page that "Open larger" leads to, which the server   *)
(* serves (server/mappost.go).  The readers and canvases are those of      *)
(* CotDocument, GeoJsonDocument and AirDocument.                           *)
(***************************************************************************)
EXTENDS MapGeometry, TLC

CONSTANTS
    MaxEvents, MaxVertices, MaxChecklistKinds, SummaryWidth, MaxFeatures, MaxRows, MaxPeriods,
    MaxArea, MaxAirfields,
    Posts,      \* stamped posts, by name: [kind, blob, fileIds, codes]
    Airports,   \* airports of map links
    MaxShows    \* bound: presses of "Show on the map"

ASSUME ShowsAssumption == MaxShows \in Nat

Kinds == {"cot", "geojson", "report", "airfields"}

Cot == INSTANCE CotDocument
Geo == INSTANCE GeoJsonDocument
Air == INSTANCE AirDocument

(* Posts are as the server stamps them: of a type it has a blob for, and a *)
(* document out of a file names the file (hooks_cot.go, hooks_geojson.go). *)
ASSUME PostsAssumption ==
    \A name \in DOMAIN Posts :
        /\ Posts[name].kind \in Kinds
        /\ Cot!Text(Posts[name].blob, "source") = "file" => "fileId" \in DOMAIN Posts[name].blob

VARIABLES
    post,      \* the post as the web app holds it: [name, payload, lost, edited, fileIds]
    features,  \* the administrator's map switches
    hidden,    \* what the reader hid, by setting
    compact,   \* the reader's compact display
    focus,     \* what the card's map was last asked to show: [entry, seq, at]
    panel,     \* the payload the sidebar was opened with
    link,      \* an "Open larger" link taken from the card's map or the panel's
    page       \* what the page draws

surface_vars == <<post, features, hidden, compact, focus, panel, link, page>>

-----------------------------------------------------------------------------
(* The readers, by the type of the post.                                   *)
Kind(p) == Posts[p.name].kind

Read(stamped) ==
    CASE stamped.kind = "cot"       -> Cot!FromProps(stamped.blob)
      [] stamped.kind = "geojson"   -> Geo!FromProps(stamped.blob)
      [] stamped.kind = "report"    -> Air!ReportFromProps(stamped.blob)
      [] stamped.kind = "airfields" -> Air!AirfieldsFromProps(stamped.blob)

\* A document out of a file stands as long as the file is attached.
FileIsThere(p) == p.payload.source = "file" => p.payload.fileId \in p.fileIds

(* The post bodies: Nothing is the fallback.  An edit is the one event     *)
(* that can make the props and the message disagree.                       *)
Card(p) ==
    IF \/ p.payload = Nothing
       \/ p.edited
       \/ Kind(p) \in {"cot", "geojson"} /\ ~FileIsThere(p)
       \/ Kind(p) = "airfields" /\ ~Air!Agrees(Posts[p.name].codes, p.payload)
    THEN Nothing
    ELSE p.payload

CanvasOf(p, payload, pageEnabled, postId) ==
    CASE Kind(p) = "cot"       -> Cot!Canvas(payload.events, pageEnabled, postId)
      [] Kind(p) = "geojson"   -> Geo!Canvas(payload, pageEnabled, postId)
      [] Kind(p) = "report"    -> Air!ReportCanvas(payload, pageEnabled, postId)
      [] Kind(p) = "airfields" -> Air!AirfieldsCanvas(payload, pageEnabled, postId)

MapShownOn(surface, p, payload) ==
    CASE Kind(p) = "cot"       -> Cot!MapShown(surface, features, hidden)
                                     /\ (surface = "card" => Cot!MapInCard(payload.events, compact))
      [] Kind(p) = "geojson"   -> Geo!MapShown(payload, surface, features, hidden)
      [] Kind(p) = "report"    -> Air!ReportMapShown(payload, surface, features, hidden)
                                     /\ (surface = "card" => ~compact)
      [] Kind(p) = "airfields" -> Air!AirfieldsMapShown(payload, features, hidden) /\ ~compact

CardMap ==
    IF Card(post) = Nothing THEN Nothing
    ELSE IF MapShownOn("card", post, Card(post))
         THEN CanvasOf(post, Card(post), features.mapPage, "id") ELSE Nothing

\* The sidebar has a map for every event, which knows of no post, or one for
\* the document, which the card handed over with its post.
PanelMaps ==
    IF panel = Nothing \/ ~MapShownOn("panel", post, panel) THEN <<>>
    ELSE IF Kind(post) = "cot"
         THEN [i \in DOMAIN panel.events |-> Cot!PanelCanvas(panel.events[i], features.mapPage)]
         ELSE <<CanvasOf(post, panel, features.mapPage, "id")>>

Entries(p, payload) ==
    CASE Kind(p) = "cot" -> payload.events
      [] Kind(p) = "geojson" -> payload.features
      [] OTHER -> <<>>

FocusOf(p, entry) == IF Kind(p) = "cot" THEN Cot!FocusFor(entry) ELSE Geo!FocusFor(entry)

\* Which entries have a button.
Shows(p, payload, entry) ==
    IF Kind(p) = "cot"
    THEN Cot!ShowButton(payload.events, entry, features, hidden, compact)
    ELSE Geo!ShowButton(payload, entry, features, hidden)

-----------------------------------------------------------------------------
NoFocus == [entry |-> 0, seq |-> 0, at |-> Nothing]

SurfacesInit ==
    /\ \E name \in DOMAIN Posts :
           post = [name |-> name, payload |-> Read(Posts[name]), lost |-> FALSE,
                   edited |-> FALSE, fileIds |-> Posts[name].fileIds]
    /\ features = [mapInline |-> TRUE, mapPanel |-> TRUE, mapPage |-> TRUE]
    /\ \E sections \in {{}, {"map"}} :
           hidden = [location |-> {}, cot |-> sections, geojson |-> sections]
    /\ compact = FALSE
    /\ focus = NoFocus /\ panel = Nothing /\ link = FALSE /\ page = Nothing

\* A press with nowhere to go keeps what was shown before.
PressShow(i) ==
    /\ Card(post) # Nothing
    /\ i \in DOMAIN Entries(post, Card(post))
    /\ Shows(post, Card(post), Entries(post, Card(post))[i])
    /\ focus.seq < MaxShows
    /\ LET at == FocusOf(post, Entries(post, Card(post))[i])
       IN  focus' = IF at = Nothing THEN focus ELSE [entry |-> i, seq |-> focus.seq + 1, at |-> at]
    /\ UNCHANGED <<post, features, hidden, compact, panel, link, page>>

OpenDetails ==
    /\ Card(post) # Nothing /\ Kind(post) # "airfields"
    /\ panel' = Card(post)
    /\ UNCHANGED <<post, features, hidden, compact, focus, link, page>>

LeadsToThePost(map) == map # Nothing /\ map.larger = "the post's map"

TakeLink ==
    /\ LeadsToThePost(CardMap) \/ \E i \in DOMAIN PanelMaps : LeadsToThePost(PanelMaps[i])
    /\ link' = TRUE
    /\ UNCHANGED <<post, features, hidden, compact, focus, panel, page>>

\* overlayForPost, without its look at the post's own edits.
ServedThoughEdited(p) ==
    LET stamped == Posts[p.name]
    IN  /\ ~p.lost
        /\ "fileId" \in DOMAIN stamped.blob => stamped.blob.fileId \in p.fileIds
        /\ stamped.kind = "report" => Air!Stated(Air!Text(stamped.blob, "format"))

(* overlayForPost: what the server serves of a post, the card's own checks *)
(* restated.                                                               *)
Served(p) ==
    LET stamped == Posts[p.name]
    IN  /\ ~p.lost /\ ~p.edited
        /\ "fileId" \in DOMAIN stamped.blob => stamped.blob.fileId \in p.fileIds
        /\ stamped.kind = "report" => Air!Stated(Air!Text(stamped.blob, "format"))

(* OverlayPageView: the card's reader and the card's canvas, or a sentence.*)
DrawingFor(p) ==
    IF p.payload = Nothing THEN Nothing ELSE CanvasOf(p, p.payload, FALSE, "")

\* Later, from a bookmark or another tab: the post is whatever it is by then.
FollowLink ==
    /\ link /\ page = Nothing /\ features.mapPage
    /\ page' = IF Served(post) THEN [of |-> "post", drawn |-> DrawingFor(post)]
               ELSE [of |-> "nothing", drawn |-> Nothing]
    /\ UNCHANGED <<post, features, hidden, compact, focus, panel, link>>

FollowAirportLink(airport) ==
    /\ page = Nothing /\ features.mapPage
    /\ Air!AirportFromBlob(airport) # Nothing
    /\ page' = [of |-> "airport", drawn |-> Air!AirportCanvas(Air!AirportFromBlob(airport))]
    /\ UNCHANGED <<post, features, hidden, compact, focus, panel, link>>

\* The type survives an edit, the props may not.  The card unmounts.
Edit ==
    /\ ~post.edited
    /\ \E lost \in BOOLEAN :
           post' = [post EXCEPT !.edited = TRUE, !.lost = lost, !.payload = IF lost THEN Nothing ELSE @]
    /\ focus' = NoFocus
    /\ UNCHANGED <<features, hidden, compact, panel, link, page>>

DetachFiles ==
    /\ post.fileIds # {}
    /\ post' = [post EXCEPT !.fileIds = {}]
    /\ focus' = IF Card(post') = Nothing THEN NoFocus ELSE focus
    /\ UNCHANGED <<features, hidden, compact, panel, link, page>>

Switch(name) ==
    /\ features' = [features EXCEPT ![name] = ~@]
    /\ UNCHANGED <<post, hidden, compact, focus, panel, link, page>>

\* The reader's own setting for a map under a post.
ToggleInline ==
    /\ hidden' = [hidden EXCEPT !.location = {"inline"} \ @]
    /\ UNCHANGED <<post, features, compact, focus, panel, link, page>>

ToggleCompact ==
    /\ compact' = ~compact
    /\ UNCHANGED <<post, features, hidden, focus, panel, link, page>>

SurfacesNext ==
    \/ \E i \in 1 .. 3 : PressShow(i)
    \/ OpenDetails
    \/ TakeLink
    \/ FollowLink
    \/ \E airport \in Airports : FollowAirportLink(airport)
    \/ Edit
    \/ DetachFiles
    \/ \E name \in {"mapInline", "mapPanel", "mapPage"} : Switch(name)
    \/ ToggleInline
    \/ ToggleCompact

SurfacesSpec == SurfacesInit /\ [][SurfacesNext]_surface_vars

-----------------------------------------------------------------------------
Inside(points, box) ==
    \A v \in DOMAIN points : InBox(points[v].lon, box) /\ points[v].lat \in box.south .. box.north

ShapesOf(map) == IF map = Nothing THEN {} ELSE ToSet(map.shapes)

\* Every event that has a place and a shape the server stands behind is drawn
\* once: as an outline, as the ellipse of an only event or as a ring of its own.
EventsAreDrawnOnce ==
    Kind(post) = "cot" /\ CardMap # Nothing =>
        LET events == Card(post).events
            sketched == {i \in DOMAIN events :
                            LET g == events[i].geometry
                            IN  /\ events[i].value # "" /\ events[i].lat # <<>>
                                /\ events[i].lat[1] \in -85 .. 85
                                /\ g # Nothing /\ g.note = ""
                                /\ Len(g.points) >= 2 \/ (g.kind = "ellipse" /\ g.major > 0 /\ g.minor > 0)}
            said == CardMap.label
        IN  /\ Cardinality(sketched) = Len(CardMap.shapes) + IF CardMap.ellipse = Nothing THEN 0 ELSE 1
            /\ Len(events) > 1 =>
                   /\ MapThenSumSet(LAMBDA word : said.tally[word], DOMAIN said.tally) = Len(CardMap.markers)
                   /\ (said.ratio = Nothing) = (Len(CardMap.markers) = Len(events))

(* A shape on a map is one somebody posted: an event's is drawn once and a *)
(* noted one never, and the map's words add up to its markers; an island   *)
(* is not a hole of another, a leg joins two airfields next to each other  *)
(* in the message, an area has all its corners and a runway both its ends. *)
ShapesAreWhole ==
    /\ EventsAreDrawnOnce
    /\ \A shape \in ShapesOf(CardMap) \cup UNION {ShapesOf(PanelMaps[i]) : i \in DOMAIN PanelMaps} :
           LET stops == IF Kind(post) = "airfields" THEN Card(post).airfields ELSE <<>>
           IN  /\ shape.closed => \A r \in DOMAIN shape.rings : Inside(shape.rings[r], PointBounds(shape.rings[1]))
               /\ Kind(post) = "report" => Len(shape.rings[1]) = Len(Posts[post.name].blob.area)
               /\ Kind(post) = "airfields" => \A v \in 2 .. Len(shape.rings[1]) :
                      \E a \in 2 .. Len(stops) : /\ stops[a - 1].at = shape.rings[1][v - 1]
                                                 /\ stops[a].at = shape.rings[1][v]
    /\ page # Nothing /\ page.of = "airport" =>
           \A i \in DOMAIN page.drawn.shapes : Len(page.drawn.shapes[i].rings[1]) = 2

(* The link of a card's map, or of the map in the panel opened from it,    *)
(* leads to that card's picture, marker for marker and shape for shape, or *)
(* to nothing at all: never to a page that cannot read the post, and never *)
(* to a document the card has stopped showing in the meantime.             *)
PageDrawsTheCard ==
    [][page' # page /\ page'.of = "post" =>
           /\ Card(post) # Nothing
           /\ page'.drawn # Nothing
           /\ [page'.drawn EXCEPT !.larger = ""] =
              [CanvasOf(post, Card(post), TRUE, "id") EXCEPT !.larger = ""]]_surface_vars

DrawnOf(p, entry) ==
    IF Kind(p) = "cot"
    THEN <<Cot!At(entry)>> \o (IF Cot!ShapeFor(entry) = Nothing THEN <<>> ELSE Cot!ShapeFor(entry).rings[1])
    ELSE [i \in DOMAIN Geo!MarkersOf(entry) |-> Geo!MarkersOf(entry)[i].at]
             \o FlattenSeq([i \in DOMAIN Geo!ShapesOf(entry) |-> ShapePoints(Geo!ShapesOf(entry)[i])])

(* A button that shows an entry on the map has a map to show it on, and    *)
(* what the map is asked to show holds everything that is drawn of the     *)
(* entry: its positions, and its outline where it has one.                 *)
ShowGoesSomewhere ==
    [][focus' # focus /\ focus' # NoFocus =>
           LET points == DrawnOf(post, Entries(post, Card(post))[focus'.entry])
           IN  /\ CardMap # Nothing
               /\ focus'.seq > focus.seq
               /\ focus'.at.box # Nothing => Inside(points, focus'.at.box)
               /\ focus'.at.box = Nothing => \A v \in DOMAIN points : points[v] = focus'.at.center]_surface_vars

(* The sidebar has everything the card has, whatever the card's own layout *)
(* for a class of events shows, and every registered extension of an       *)
(* event, but for what a route says of itself where no shape was read.     *)
PanelCarriesTheCard ==
    [][OpenDetails =>
        CASE Kind(post) = "cot" ->
                LET events == Card(post).events
                IN  \A i \in DOMAIN events :
                        LET shown == Cot!EventSection(events[i], {})
                        IN  /\ Cot!CardShows(events)[i] \ {"stream"} \subseteq shown
                            /\ "stream" \in Cot!CardShows(events)[i] => shown \cap Cot!VideoKeys # {}
                            /\ \A key \in Cot!DetailKeys :
                                   events[i].detail[key] # "" =>
                                       key \in shown \/ (key \in Cot!RouteKeys /\ events[i].geometry = Nothing)
          [] Kind(post) = "geojson" -> Geo!CardShows(Card(post)) \subseteq Geo!PanelShows(Card(post), {})
          [] Kind(post) = "report"  -> Air!ReportCardShows(Card(post), compact) \subseteq Air!ReportPanelShows(Card(post))]_surface_vars
=============================================================================
