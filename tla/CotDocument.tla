---------------------------- MODULE CotDocument -----------------------------
(***************************************************************************)
(* A stamped Cursor on Target post in the web app: what cot/types.ts reads *)
(* out of its props, what cot/CotMap.tsx draws of the events, and what the *)
(* card (cot/CotCard.tsx, cot/summary.tsx) and the sidebar                 *)
(* (cot/CotPanel.tsx, cot/DetailGroups.tsx) say of them.                   *)
(*                                                                         *)
(* Props are functions from keys to values.  A key whose value is not of   *)
(* the type its reader asks for is left out, as an absent one is: every    *)
(* reader treats the two alike.  Text is a string, a figure is <<n>> or    *)
(* <<NaN>>, and a value that is no object is <<>>.  Keys that are only     *)
(* shown, and that nothing decides on, keep the names the code gives them. *)
(***************************************************************************)
EXTENDS MapGeometry, TLC

CONSTANTS
    MaxEvents,          \* MAX_EVENTS
    MaxVertices,        \* MAX_VERTICES
    MaxChecklistKinds,  \* MAX_CHECKLIST_KINDS
    SummaryWidth        \* SUMMARY_MAX_RUNES

Figures == {"lat", "lon", "ceMeters", "majorMeters", "minorMeters", "angleDegrees",
            "timeAt", "staleAt", "detailUnknown"}

Text(blob, key) == IF key \in DOMAIN blob THEN blob[key] ELSE IF key \in Figures THEN <<>> ELSE ""

\* Number() of a text that is a figure: 0 where nothing is written.
Number(figure) == IF figure = <<>> THEN 0 ELSE figure[1]

IsObject(value) == DOMAIN value # {}
Stated(text) == text # ""
AtMost(n, s) == SubSeq(s, 1, Min({n, Len(s)}))
Items(blob, key) == IF key \in DOMAIN blob THEN blob[key] ELSE <<>>

-----------------------------------------------------------------------------
(* What is read.  CotDetail: every registered <detail> extension, by the   *)
(* block of the event it comes from.                                       *)
DeviceKeys == {"takvPlatform", "takvDevice", "takvOs", "takvVersion", "uidExtraDroid",
    "statusBattery", "statusReadiness", "contactEndpoint", "usericonIconsetpath",
    "radioRssi", "radioGps", "archive", "colorArgb"}
PrecisionKeys == {"precisionGeopointsrc", "precisionAltsrc", "precisionPdop", "precisionHdop",
    "precisionVdop"}
TelemetryKeys == {"attitudeYaw", "attitudePitch", "attitudeRoll", "trackSlope"}
SensorKeys == {"sensorFov", "sensorVfov", "sensorAzimuth", "sensorElevation", "sensorRange",
    "sensorRoll", "sensorModel"}
VideoKeys == {"videoUid", "videoConnAddress", "videoConnPort", "videoConnProtocol",
    "videoConnPath", "videoUrl"}
ChatKeys == {"chatSender", "chatRoom", "chatId", "chatParent", "chatGroupOwner", "chatgrpId",
    "chatgrpUid0", "chatgrpUid1", "chatReceiptId", "chatReceiptRoom", "chatReceiptSender",
    "chatReceiptAck"}
MedevacKeys == {"medevacTitle", "medevacUrgent", "medevacPriority", "medevacRoutine",
    "medevacLitter", "medevacAmbulatory", "medevacCasevac", "medevacFreq", "medevacSecurity",
    "medevacHlzMarking", "medevacTerrainNone", "medevacEquipmentDetail", "medevacEquipmentNone",
    "medevacZoneProtSelection", "medevacNationality", "medevacNbc", "medevacMedlineRemarks"}
GeofenceKeys == {"geofenceMonitor", "geofenceTrigger", "geofenceTracking", "geofenceElevation",
    "geofenceMin", "geofenceMax", "geofenceSphere"}
RouteKeys == {"routeType", "routePlanning", "routeMethod", "routeDirection", "routeOrder"}
RoutingKeys == {"destinationServers", "takcontrol", "takcontrolSupportVersion",
    "takcontrolRequestVersion", "takcontrolResponseStatus"}

DetailKeys ==
    DeviceKeys \cup PrecisionKeys \cup TelemetryKeys \cup SensorKeys \cup VideoKeys \cup ChatKeys
        \cup MedevacKeys \cup GeofenceKeys \cup {"attachmentsCount"} \cup RouteKeys \cup RoutingKeys

EventKeys == {
    "uid", "detailUnknown", "detailDropped", "callsign", "cotType", "typeLabel", "affiliation",
    "how", "howLabel", "time", "timeQuery", "start", "startQuery", "stale", "staleQuery",
    "staleAt", "timeAt", "format", "value", "lat", "lon", "positionNote", "hae", "ce", "ceMeters",
    "le", "speed", "course", "group", "role", "remarks", "parent", "related" }

ReadDetail(event) == [key \in DetailKeys |-> Text(event, key)]

\* A hop that names no system is not on the path; the order is the event's.
ReadFlow(event) == SelectSeq(Items(event, "flow"), LAMBDA hop : IsObject(hop) /\ Stated(Text(hop, "system")))

OnTheGlobe(vertex) ==
    /\ IsObject(vertex)
    /\ Number(Text(vertex, "lat")) \in -90 .. 90
    /\ Number(Text(vertex, "lon")) \in -180 .. 180

Vertex(vertex) == [lat |-> Number(Text(vertex, "lat")), lon |-> Number(Text(vertex, "lon"))]

\* One bad vertex refuses the whole shape.
ReadVertices(raw) ==
    IF Len(raw) < 2 \/ \E i \in DOMAIN raw : ~OnTheGlobe(raw[i]) THEN <<>> ELSE raw

ReadGeometry(event) ==
    LET raw == Items(event, "geometry")
        vertices == ReadVertices(AtMost(MaxVertices, Items(raw, "points")))
    IN  IF ~IsObject(raw) \/ ~Stated(Text(raw, "kind")) THEN Nothing
        ELSE [kind   |-> Text(raw, "kind"),
              closed |-> Stated(Text(raw, "closed")),
              points |-> [i \in DOMAIN vertices |-> Vertex(vertices[i])],
              count  |-> Text(raw, "count"),
              note   |-> Text(raw, "note"),
              major  |-> Number(Text(raw, "majorMeters")),
              minor  |-> Number(Text(raw, "minorMeters")),
              angle  |-> Number(Text(raw, "angleDegrees"))]

ReadChecklist(event) ==
    LET raw == Items(event, "checklist")
    IN  IF ~IsObject(raw) THEN Nothing
        ELSE [count |-> Text(raw, "count"),
              kinds |-> SelectSeq(AtMost(MaxChecklistKinds, Items(raw, "kinds")),
                                  LAMBDA kind : IsObject(kind) /\ Stated(Text(kind, "name")))]

\* readClass: one the server writes, or the default layout.
ReadClass(event) ==
    IF Text(event, "class") \in {"chat", "medevac", "sensor", "video"} THEN Text(event, "class") ELSE ""

ReadEvent(event) ==
    IF ~IsObject(event) \/ ~Stated(Text(event, "uid")) THEN Nothing
    ELSE [key \in EventKeys |-> Text(event, key)]
         @@ [cotClass |-> ReadClass(event), detail |-> ReadDetail(event), flow |-> ReadFlow(event),
             geometry |-> ReadGeometry(event), checklist |-> ReadChecklist(event)]

(* Both shapes the server has written: version 1 held a single event.      *)
RawEvents(blob) ==
    AtMost(MaxEvents, IF "events" \in DOMAIN blob THEN blob.events
                      ELSE <<IF "event" \in DOMAIN blob THEN blob.event ELSE <<>>>>)

\* One event that cannot be read refuses them all.
ReadEvents(blob) ==
    LET raw == RawEvents(blob)
    IN  IF \E i \in DOMAIN raw : ReadEvent(raw[i]) = Nothing THEN <<>>
        ELSE [i \in DOMAIN raw |-> ReadEvent(raw[i])]

FromProps(blob) ==
    IF \/ ~IsObject(blob)
       \/ blob.version \notin {1, 2}
       \/ Text(blob, "source") \notin {"fence", "file"}
       \/ ReadEvents(blob) = <<>>
    THEN Nothing
    ELSE [source |-> Text(blob, "source"), fileId |-> Text(blob, "fileId"),
          src |-> Text(blob, "src"), events |-> ReadEvents(blob)]

-----------------------------------------------------------------------------
(* Readings that are worked out.                                           *)
AffiliationColors ==
    "friend" :> "blue" @@ "assumed-friend" :> "blue" @@ "hostile" :> "red" @@ "suspect" :> "red"
        @@ "neutral" :> "green" @@ "unknown" :> "amber" @@ "pending" :> "amber"

AffiliationWords ==
    "friend" :> "friendly" @@ "assumed-friend" :> "assumed friendly" @@ "hostile" :> "hostile"
        @@ "suspect" :> "suspect" @@ "neutral" :> "neutral" @@ "unknown" :> "unknown"
        @@ "pending" :> "pending" @@ "joker" :> "joker" @@ "faker" :> "faker"
        @@ "none" :> "unaffiliated" @@ "other" :> "other"

AffiliationColor(event) ==
    IF event.affiliation \in DOMAIN AffiliationColors THEN AffiliationColors[event.affiliation] ELSE ""
AffiliationWord(event) ==
    IF event.affiliation \in DOMAIN AffiliationWords THEN AffiliationWords[event.affiliation] ELSE "unstated"

\* statedColor: HEX_COLOR again, since props are not a trusted input.
StatedColor(event) == IF event.detail.colorArgb = "#rrggbb" THEN "#rrggbb" ELSE ""

IsLinkable(event) == Stated(event.format) /\ Stated(event.value)

AccuracyMeters(event) ==
    LET meters == Number(event.ceMeters)
    IN  IF meters = NaN \/ meters <= 0 THEN Nothing ELSE <<meters>>

(* validFor: days, hours and minutes, and the seconds only of a span of    *)
(* less than an hour.                                                      *)
CompactDuration(seconds) ==
    LET days == seconds \div 86400
        hours == (seconds % 86400) \div 3600
        minutes == (seconds % 3600) \div 60
        rest == IF days = 0 /\ hours = 0 THEN seconds % 60 ELSE 0
    IN  SelectSeq(<<<<days, 86400>>, <<hours, 3600>>, <<minutes, 60>>, <<rest, 1>>>>,
                  LAMBDA part : part[1] > 0)

ValidFor(event) ==
    LET from == Number(event.timeAt)
        to == Number(event.staleAt)
    IN  IF from = NaN \/ to = NaN \/ from <= 0 \/ to <= from THEN <<>>
        ELSE CompactDuration((to - from + 500) \div 1000)

-----------------------------------------------------------------------------
(* What is drawn.                                                          *)
At(event) == [lat |-> Number(event.lat), lon |-> Number(event.lon)]

Drawable(event) ==
    IsLinkable(event) /\ IsRenderable(At(event).lat) /\ IsPlaceableLongitude(At(event).lon)

DrawableEvents(events) == SelectSeq(events, Drawable)

MarkersFor(events) ==
    [i \in DOMAIN events |->
        [at |-> At(events[i]),
         color |-> IF AffiliationColor(events[i]) = "" THEN "uncolored" ELSE AffiliationColor(events[i])]]

(* For a reader who gets no color: how many of what, and of how many       *)
(* events where some could not be drawn.                                   *)
BlockLabel(drawn, total) ==
    [ratio |-> IF Len(drawn) = total THEN Nothing ELSE <<Len(drawn), total>>,
     tally |-> [word \in {AffiliationWord(drawn[i]) : i \in DOMAIN drawn} |->
                   Cardinality({i \in DOMAIN drawn : AffiliationWord(drawn[i]) = word})]]

\* The server's verdict wins: what it noted is not drawn.
DrawableGeometry(event) ==
    IF event.geometry = Nothing \/ event.geometry.note # "" THEN Nothing ELSE event.geometry

EllipseFor(event) ==
    LET geometry == IF event = Nothing THEN Nothing ELSE DrawableGeometry(event)
    IN  IF \/ geometry = Nothing
           \/ geometry.kind # "ellipse"
           \/ NaN \in {geometry.major, geometry.minor}
           \/ geometry.major <= 0 \/ geometry.minor <= 0
        THEN Nothing
        ELSE [major |-> geometry.major, minor |-> geometry.minor, color |-> StatedColor(event),
              quarter |-> IF geometry.angle = NaN THEN 0 ELSE geometry.angle \div 90]

OutlineOf(event) ==
    LET geometry == DrawableGeometry(event)
    IN  IF geometry = Nothing \/ geometry.kind = "ellipse" \/ Len(geometry.points) < 2 THEN Nothing
        ELSE [points |-> geometry.points, closed |-> geometry.closed]

MapShape(ring, closed, color) == [rings |-> <<ring>>, closed |-> closed, color |-> color]

ShapeFor(event) ==
    IF OutlineOf(event) = Nothing THEN Nothing
    ELSE MapShape(OutlineOf(event).points, OutlineOf(event).closed, StatedColor(event))

\* An ellipse of a block is a ring of its own around its own event.
EllipseShapeFor(event) ==
    LET ellipse == EllipseFor(event)
        ring == GeodesicRing(At(event), ellipse.major, ellipse.minor, ellipse.quarter)
    IN  IF ellipse = Nothing \/ ring = Nothing THEN Nothing ELSE MapShape(ring, TRUE, ellipse.color)

\* The ellipse of an only event is the map's own.
OutlinesFor(drawn, only) ==
    SelectSeq([i \in DOMAIN drawn |->
                  IF ShapeFor(drawn[i]) # Nothing \/ drawn[i] = only THEN ShapeFor(drawn[i])
                  ELSE EllipseShapeFor(drawn[i])],
              LAMBDA shape : shape # Nothing)

\* The position alone, as the map has always shown a single one.
FocusOnTheMarker(event) == IF ~Drawable(event) \/ event.lon = <<>> THEN Nothing ELSE FocusOn(<<At(event)>>)

FocusFor(event) ==
    IF ~Drawable(event) \/ event.lon = <<>> THEN Nothing
    ELSE FocusOn((IF OutlineOf(event) = Nothing THEN <<>> ELSE OutlineOf(event).points) \o <<At(event)>>)

DrawsNothing(events) == MarkersFor(DrawableEvents(events)) = <<>>

\* Where "Open larger" goes.
LargerHref(pageEnabled, only, postId) ==
    CASE ~pageEnabled -> ""
      [] pageEnabled /\ postId # "" -> "the post's map"
      [] pageEnabled /\ postId = "" -> IF only = Nothing THEN "" ELSE "the position's map"

(* CotMapCanvas.  The accuracy circle and the ellipse are of an event that *)
(* is alone in its post.                                                   *)
Canvas(events, pageEnabled, postId) ==
    LET drawn == DrawableEvents(events)
        only == IF Len(events) = 1 /\ Len(drawn) = 1 THEN drawn[1] ELSE Nothing
    IN  IF DrawsNothing(events) THEN Nothing
        ELSE [at       |-> At(drawn[1]),
              markers  |-> MarkersFor(drawn),
              accuracy |-> IF only = Nothing THEN Nothing ELSE AccuracyMeters(only),
              ellipse  |-> EllipseFor(only),
              shapes   |-> OutlinesFor(drawn, only),
              label    |-> IF only = Nothing THEN BlockLabel(drawn, Len(events)) ELSE only.typeLabel,
              larger   |-> LargerHref(pageEnabled, only, postId)]

(* CotMap: the administrator's switch is one for both surfaces, the        *)
(* reader's is the surface's own.                                          *)
MapShown(surface, features, hidden) ==
    /\ features.mapInline
    /\ IF surface = "card" THEN "inline" \notin hidden.location ELSE "map" \notin hidden.cot

\* The card draws a map for an event that links to one, and not in a compact channel.
MapInCard(events, compact) == ~compact /\ \E i \in DOMAIN events : IsLinkable(events[i])

\* useInlineMapShown, and what the card adds to it.
ShowButton(events, event, features, hidden, compact) ==
    /\ features.mapInline /\ "inline" \notin hidden.location
    /\ MapInCard(events, compact) /\ FocusFor(event) # Nothing

-----------------------------------------------------------------------------
(* What is said.  A card is one line per reading, so what a class adds to  *)
(* it is cut to a width; a text is long or it is not.                      *)
Width(text) == IF text = "long" THEN 50 ELSE 12
TooWide(texts) == FoldLeft(LAMBDA sum, text : sum + Width(text), 0, texts) > SummaryWidth

\* What is stated of a line, up to one of its keys.
LineTo(event, keys, n) == SelectSeq([i \in 1 .. n |-> event.detail[keys[i]]], Stated)

\* Readings shown where they are stated, a few of them only behind another.
Readings(event, keys) ==
    {key \in keys : IF key \in Figures THEN event[key] # <<>> ELSE Stated(event[key])}
Behind(event, key, first) == IF Stated(event[first]) THEN Readings(event, {key}) ELSE {}

(* oneLine: whole readings go from the end until the line fits; with one   *)
(* left that does not, the line points at the panel instead.               *)
OneLine(event, keys) ==
    {keys[n] : n \in {m \in DOMAIN keys : /\ Stated(event.detail[keys[m]])
                                         /\ ~TooWide(LineTo(event, keys, m))}}

\* A chat that states neither a sender nor a room falls back to the ordinary card.
ChatReading(event) ==
    event.cotClass = "chat" /\ (Stated(event.detail.chatSender) \/ Stated(event.detail.chatRoom))

ChatSummary(event) ==
    IF ~ChatReading(event) THEN {}
    ELSE {key \in {"chatSender", "chatRoom"} :
             Stated(event.detail[key]) /\ ~TooWide(<<event.detail.chatSender, event.detail.chatRoom>>)}
         \cup Readings(event, {"remarks"})

\* That there is a stream, never where it is.
VideoSummary(event) ==
    IF \E key \in {"videoUrl", "videoConnAddress", "videoUid"} : Stated(event.detail[key])
    THEN {"stream"} ELSE {}

ClassSummary(event) ==
    CASE event.cotClass = "chat"    -> ChatSummary(event)
      [] event.cotClass = "video"   -> VideoSummary(event)
      [] event.cotClass = "medevac" -> OneLine(event,
             <<"medevacUrgent", "medevacPriority", "medevacRoutine", "medevacLitter", "medevacAmbulatory">>)
      [] event.cotClass = "sensor"  -> OneLine(event,
             <<"sensorFov", "sensorAzimuth", "sensorRange", "sensorModel">>)
      [] OTHER -> {}

Naming(event) == {IF Stated(event.callsign) THEN "callsign" ELSE "uid", "typeLabel", "cotType"}

Degraded(event) == Readings(event, {"detailDropped"})

StaleWindow(event) == IF Stated(event.stale) /\ ValidFor(event) # <<>> THEN {"validFor"} ELSE {}

EventDetail(event) ==
    Readings(event, {"positionNote", "lat", "speed", "time", "stale", "group"})
        \cup (IF ChatReading(event) THEN {} ELSE Readings(event, {"remarks"}))
        \cup Behind(event, "course", "speed") \cup Behind(event, "role", "group")
        \cup StaleWindow(event)
        \cup (IF event.lat = <<>> THEN {} ELSE {"lon"})

\* CotCard: an only event in full, several by their names.
CardShows(events) ==
    [i \in DOMAIN events |->
        Naming(events[i]) \cup (IF Len(events) > 1 THEN {}
                                ELSE ClassSummary(events[i]) \cup Degraded(events[i])
                                         \cup EventDetail(events[i]))]

StatedIn(event, keys) == {key \in keys : Stated(event.detail[key])}

Payload(event) ==
    StatedIn(event, SensorKeys \cup VideoKeys \cup ChatKeys \cup MedevacKeys \cup GeofenceKeys
                        \cup {"attachmentsCount"})
        \cup (IF event.checklist = Nothing THEN {} ELSE {"checklist"})

\* The rows of a route are read beside the shape: an event without one shows none.
Shape(event) ==
    IF event.geometry = Nothing THEN {}
    ELSE StatedIn(event, RouteKeys) \cup {"geometry"}
             \cup (IF Stated(event.geometry.note) THEN {"geometry note"} ELSE {})

\* Nothing without a hop.
PathAlone(event) == IF event.flow = <<>> THEN {} ELSE StatedIn(event, RoutingKeys) \cup {"flow"}

ProcessingPath(event) ==
    StatedIn(event, RoutingKeys) \cup (IF event.flow = <<>> THEN {} ELSE {"flow"})

Unrecognized(event) == IF Number(event.detailUnknown) \in {NaN, 0} THEN {} ELSE {"detailUnknown"}

\* DetailGroups: what the reader did not hide, and what this build could not keep.
DetailGroups(event, hidden) ==
    LET under(section, shown) == IF section \in hidden THEN {} ELSE shown
    IN  under("device", StatedIn(event, DeviceKeys))
            \cup under("precision", StatedIn(event, PrecisionKeys))
            \cup under("orientation", StatedIn(event, TelemetryKeys))
            \cup under("payload", Payload(event))
            \cup under("shape", Shape(event))
            \cup under("flow", ProcessingPath(event))
            \cup Unrecognized(event) \cup Readings(event, {"detailDropped"})

\* EventSection of the sidebar, once per event.
EventSection(event, hidden) ==
    Naming(event) \cup Readings(event, {"positionNote"})
        \cup (IF "event" \in hidden THEN {}
              ELSE {"ce", "uid"}
                   \cup Readings(event, {"lat", "hae", "speed", "course", "time", "start", "stale",
                                         "group", "role", "parent", "related", "howLabel"})
                   \cup StaleWindow(event) \cup (IF event.lat = <<>> THEN {} ELSE {"lon"}))
        \cup (IF "remarks" \in hidden THEN {} ELSE Readings(event, {"remarks"}))
        \cup DetailGroups(event, hidden)

\* CotPanel: one section and one map per event, and no post to link to.
PanelCanvas(event, pageEnabled) == IF IsLinkable(event) THEN Canvas(<<event>>, pageEnabled, "") ELSE Nothing
=============================================================================
