-------------------------- MODULE GeoJsonDocument ---------------------------
(***************************************************************************)
(* A stamped GeoJSON post in the web app: what geojson/types.ts reads out  *)
(* of its props, what geojson/GeoJsonMap.tsx draws of the features, and    *)
(* what the card (geojson/GeoJsonCard.tsx) and the sidebar                 *)
(* (geojson/GeoJsonPanel.tsx) say of them.                                 *)
(*                                                                         *)
(* Props are functions from keys to values; a key whose value is not of    *)
(* the type its reader asks for is left out, as an absent one is.  A       *)
(* coordinate is <<n>>, or <<>> where nothing readable is written, and a   *)
(* style is a lexeme of MapGeometry.                                       *)
(***************************************************************************)
EXTENDS MapGeometry, TLC

CONSTANTS
    MaxFeatures,  \* MAX_FEATURES
    MaxVertices   \* MAX_VERTICES, over the whole document

Text(blob, key) == IF key \in DOMAIN blob THEN blob[key] ELSE ""
Items(blob, key) == IF key \in DOMAIN blob THEN blob[key] ELSE <<>>
IsObject(value) == DOMAIN value # {}
Stated(text) == text # ""
Objects(s) == SelectSeq(s, IsObject)

-----------------------------------------------------------------------------
(* What is read: everything, and nothing cut short.  A document past a     *)
(* limit is refused whole, since the server never wrote it.                *)
Kinds == {"Point", "MultiPoint", "LineString", "MultiLineString", "Polygon", "MultiPolygon",
          "GeometryCollection", "none"}
ReadKind(blob) == IF Text(blob, "kind") \in Kinds THEN blob.kind ELSE "none"

ReadRings(part) ==
    [r \in DOMAIN Items(part, "rings") |->
        LET ring == Objects(part.rings[r])
        IN  [v \in DOMAIN ring |-> [lat |-> Items(ring[v], "lat"), lon |-> Items(ring[v], "lon")]]]

ReadRingCounts(part) == SelectSeq(Items(part, "ring_counts"), LAMBDA n : n > 0)

ReadParts(feature) ==
    LET parts == Objects(Items(feature, "parts"))
    IN  [i \in DOMAIN parts |-> [kind |-> ReadKind(parts[i]), rings |-> ReadRings(parts[i]),
                                ringCounts |-> ReadRingCounts(parts[i])]]

ReadProperties(feature) ==
    LET properties == Objects(Items(feature, "properties"))
    IN  [i \in DOMAIN properties |-> [key |-> Text(properties[i], "key"), value |-> Text(properties[i], "value")]]

Styles == {"color", "width", "lineOpacity", "fillOpacity"}

ReadFeature(feature) ==
    [key \in {"name", "note", "format", "value", "length", "area"} |-> Text(feature, key)]
    @@ [key \in Styles |-> Items(feature, key)]
    @@ [kind |-> ReadKind(feature), parts |-> ReadParts(feature), properties |-> ReadProperties(feature)]

ReadFeatures(blob) ==
    LET features == Objects(Items(blob, "features"))
    IN  [i \in DOMAIN features |-> ReadFeature(features[i])]

Positions(feature) ==
    FlattenSeq([i \in DOMAIN feature.parts |-> FlattenSeq(feature.parts[i].rings)])

PositionCount(features) == FoldLeft(LAMBDA sum, f : sum + Len(Positions(f)), 0, features)

FromProps(blob) ==
    IF \/ ~IsObject(blob)
       \/ Items(blob, "version") # <<1>>
       \/ Text(blob, "source") \notin {"fence", "file"}
       \/ Len(ReadFeatures(blob)) > MaxFeatures
       \/ PositionCount(ReadFeatures(blob)) > MaxVertices
    THEN Nothing
    ELSE [source |-> Text(blob, "source"), src |-> Text(blob, "src"),
          fileId |-> Text(blob, "fileId"), fileName |-> Text(blob, "fileName"),
          name |-> Text(blob, "name"), description |-> Text(blob, "description"), note |-> Text(blob, "note"),
          unplaceable |-> Stated(Text(blob, "unplaceable")),
          propertiesDropped |-> Stated(Text(blob, "properties_dropped")),
          features |-> ReadFeatures(blob)]

-----------------------------------------------------------------------------
(* What is drawn.  A note is the server's verdict: nothing of a noted      *)
(* feature is drawn.                                                       *)
UsablePosition(p) == p.lat # <<>> /\ p.lon # <<>> /\ IsRenderable(p.lat[1]) /\ IsPlaceableLongitude(p.lon[1])
Placed(ring) ==
    LET usable == SelectSeq(ring, UsablePosition)
    IN  [v \in DOMAIN usable |-> [lat |-> usable[v].lat[1], lon |-> usable[v].lon[1]]]

IsPointPart(part) == part.kind \in {"Point", "MultiPoint"}
Unnoted(features) == SelectSeq(features, LAMBDA f : ~Stated(f.note))

StatedStyle(feature) == [key \in Styles |-> feature[key]]
ColorFor(feature, fallback) ==
    LET color == StyleOf(StatedStyle(feature)).color
    IN  IF color = Nothing THEN fallback ELSE color.name

\* The lexemes of the style that the map would admit, and no others.
CheckedStyle(feature) ==
    LET drawn == StyleOf(StatedStyle(feature))
    IN  [color       |-> drawn.color,
         width       |-> IF drawn.width = Nothing THEN Nothing ELSE feature.width,
         lineOpacity |-> IF drawn.lineOpacity = Nothing THEN Nothing ELSE feature.lineOpacity,
         fillOpacity |-> IF drawn.fill = Nothing THEN Nothing ELSE feature.fillOpacity]

MarkersOf(feature) ==
    LET points == FlattenSeq([i \in DOMAIN feature.parts |->
                      IF IsPointPart(feature.parts[i])
                      THEN Placed(FlattenSeq(feature.parts[i].rings)) ELSE <<>>])
    IN  [i \in DOMAIN points |-> [at |-> points[i], color |-> ColorFor(feature, "document")]]

MarkersFor(features) ==
    FlattenSeq([i \in DOMAIN Unnoted(features) |-> MarkersOf(Unnoted(features)[i])])

\* Every ring of a part in one shape.
WholePart(part) == IF part.rings = <<>> THEN <<>> ELSE <<part.rings>>

(* One shape per member: the counts say where each member's rings end, and *)
(* a part without them is one member.                                      *)
MembersOf(part) ==
    LET counts == IF part.ringCounts = <<>> THEN <<Len(part.rings)>> ELSE part.ringCounts
        before(m) == FoldLeft(+, 0, SubSeq(counts, 1, m - 1))
        upto(m) == Min({before(m) + counts[m], Len(part.rings)})
    IN  SelectSeq([m \in DOMAIN counts |-> SubSeq(part.rings, before(m) + 1, upto(m))],
                  LAMBDA member : member # <<>>)

\* A member that lost a ring goes whole, or a hole would become its outline.
Whole(member) == \A r \in DOMAIN member : Len(Placed(member[r])) >= 2

ShapesOf(feature) ==
    FlattenSeq([i \in DOMAIN feature.parts |->
        LET part == feature.parts[i]
            members == SelectSeq(MembersOf(part), Whole)
        IN  IF IsPointPart(part) THEN <<>>
            ELSE [m \in DOMAIN members |->
                     [rings  |-> [r \in DOMAIN members[m] |-> Placed(members[m][r])],
                      closed |-> part.kind \in {"Polygon", "MultiPolygon"}]
                     @@ CheckedStyle(feature)]])

ShapesFor(features) ==
    FlattenSeq([i \in DOMAIN Unnoted(features) |-> ShapesOf(Unnoted(features)[i])])

FocusFor(feature) == IF Stated(feature.note) THEN Nothing ELSE FocusOn(Placed(Positions(feature)))

DrawsNothing(payload) ==
    payload.unplaceable \/ (MarkersFor(payload.features) = <<>> /\ ShapesFor(payload.features) = <<>>)

\* GeoJsonMapCanvas: no primary position, for a centroid is one nobody stated.
Canvas(payload, pageEnabled, postId) ==
    IF DrawsNothing(payload) THEN Nothing
    ELSE [at       |-> Nothing,
          markers  |-> MarkersFor(payload.features),
          accuracy |-> Nothing,
          ellipse  |-> Nothing,
          shapes   |-> ShapesFor(payload.features),
          label    |-> [markers |-> Len(MarkersFor(payload.features)), shapes |-> Len(ShapesFor(payload.features))],
          larger   |-> IF pageEnabled /\ postId # "" THEN "the post's map" ELSE ""]

(* GeoJsonMap: the card's map has the switch and the setting of a map      *)
(* under a post, the panel's its own pair.                                 *)
MapShown(payload, surface, features, hidden) ==
    /\ ~payload.unplaceable
    /\ IF surface = "card" THEN features.mapInline /\ "inline" \notin hidden.location
                           ELSE features.mapPanel /\ "map" \notin hidden.geojson

\* useInlineMapShown, and what the card adds to it.
ShowButton(payload, feature, features, hidden) ==
    /\ features.mapInline /\ "inline" \notin hidden.location
    /\ ~payload.unplaceable /\ FocusFor(feature) # Nothing

-----------------------------------------------------------------------------
(* What is said.                                                           *)
DescriptionOf(feature) ==
    LET found == SelectSeq(feature.properties, LAMBDA p : p.key = "description")
    IN  IF found = <<>> THEN "" ELSE found[1].value

StyleKeys == {"marker-color", "marker-size", "stroke", "stroke-width", "stroke-opacity", "fill",
              "fill-opacity"}

\* What is said elsewhere is not said again.
ShownProperties(feature) ==
    SelectSeq(feature.properties, LAMBDA p :
        /\ p.key \notin StyleKeys \cup {"description"}
        /\ p.key \in {"name", "title", "label"} => p.value # feature.name)

SolePosition(feature) ==
    IF feature.kind = "Point" /\ Len(feature.parts) = 1 /\ Len(Positions(feature)) = 1
       /\ Len(feature.parts[1].rings) = 1
    THEN Positions(feature)[1] ELSE Nothing

IsLinkable(feature) == Stated(feature.format) /\ Stated(feature.value)

\* Counts, for anything but a lone point: vertices are not reported positions.
ShapeLine(feature) ==
    LET vertices == Len(Positions(feature))
        rings == FoldLeft(LAMBDA sum, part : sum + Len(part.rings), 0, feature.parts)
    IN  CASE feature.kind = "none" \/ (feature.kind = "Point" /\ vertices = 1) -> <<>>
          [] feature.kind \in {"Polygon", "MultiPolygon"} -> <<rings, vertices>>
          [] OTHER -> <<vertices>>

MeasureLine(feature) == SelectSeq(<<feature.length, feature.area>>, Stated)

Sentences(blob, keys) == {blob[key] : key \in {k \in keys : Stated(blob[k])}}

FeatureHead(feature) ==
    Sentences(feature, {"name", "note"}) \cup ({DescriptionOf(feature)} \ {""})

CardFeature(feature) == FeatureHead(feature)

PanelFeature(feature, showProperties) ==
    FeatureHead(feature) \cup ToSet(MeasureLine(feature))
        \cup (IF ShapeLine(feature) = <<>> THEN {} ELSE {"shape line"})
        \cup (IF SolePosition(feature) = Nothing THEN {}
              ELSE {IF IsLinkable(feature) THEN "position link" ELSE "position"})
        \cup (IF showProperties THEN {p.value : p \in ToSet(ShownProperties(feature))} \ {""} ELSE {})

\* A document is named by its name, or by its file.
Heading(payload) == IF Stated(payload.name) THEN payload.name ELSE payload.fileName

Summary(payload) ==
    Sentences(payload, {"description", "note"}) \cup ({Heading(payload)} \ {""})
        \cup (IF payload.propertiesDropped THEN {"properties dropped"} ELSE {})

CardShows(payload) ==
    Summary(payload) \cup UNION {CardFeature(f) : f \in ToSet(payload.features)}

\* The source is folded under the rest.
PanelShows(payload, hidden) ==
    (IF "summary" \in hidden THEN {} ELSE Summary(payload))
        \cup (IF "features" \in hidden THEN {}
              ELSE UNION {PanelFeature(f, "properties" \notin hidden) : f \in ToSet(payload.features)})
        \cup (IF "source" \in hidden THEN {} ELSE {payload.src})
=============================================================================
