---------------------------- MODULE AirDocument -----------------------------
(***************************************************************************)
(* The aviation posts in the web app: a decoded report (avreport/types.ts, *)
(* avreport/map.ts and the components beside them) and the airfields a     *)
(* message names (decorators/airport/route.ts, map.ts and the components   *)
(* beside them), with the airport of a map link.                           *)
(*                                                                         *)
(* Props are functions from keys to values.  A text of another type is     *)
(* Ill, which these readers refuse where the others take it for absent.  A *)
(* position is [lat, lon] where it parses, with NaN where it does not, and *)
(* Nothing where none is stated.                                           *)
(***************************************************************************)
EXTENDS MapGeometry

CONSTANTS
    MaxRows,       \* MAX_REPORT_ROWS
    MaxPeriods,    \* MAX_REPORT_PERIODS
    MaxArea,       \* MAX_AREA_POINTS
    MaxAirfields   \* MAX_ROUTE_AIRFIELDS

MinArea == 3
Ill == "ill"

Text(blob, key) == IF key \in DOMAIN blob THEN blob[key] ELSE ""
Items(blob, key) == IF key \in DOMAIN blob THEN blob[key] ELSE <<>>
IsObject(value) == DOMAIN value # {}
Stated(text) == text # ""
AtMost(n, s) == SubSeq(s, 1, Min({n, Len(s)}))

(* positionPayload, and the latitudes a map can draw.  A report's area     *)
(* asks for a longitude too.                                               *)
Placeable(position) == position # Nothing /\ IsRenderable(position.lat)

-----------------------------------------------------------------------------
(* What is read of a report: one bad row refuses it whole, and rows past   *)
(* the cap are not looked at.  Refused is no value of any of its keys.     *)
Refused == [refused |-> TRUE]
HasRefused(values) == Refused \in values

ReadRow(row) ==
    IF ~IsObject(row) \/ Text(row, "label") \in {"", Ill} \/ Text(row, "value") = Ill \/ Text(row, "query") = Ill
    THEN Refused
    ELSE [label |-> row.label, value |-> Text(row, "value"), query |-> Text(row, "query")]

ReadRows(blob, key) ==
    LET raw == AtMost(MaxRows, Items(blob, key))
    IN  [i \in DOMAIN raw |-> ReadRow(raw[i])]

ReadPeriod(period) ==
    IF \/ ~IsObject(period) \/ Text(period, "period") \in {"", Ill}
       \/ HasRefused(ToSet(ReadRows(period, "rows")))
    THEN Refused
    ELSE [period |-> period.period, rows |-> ReadRows(period, "rows")]

ReadPeriods(blob) ==
    LET raw == AtMost(MaxPeriods, Items(blob, "periods"))
    IN  [i \in DOMAIN raw |-> ReadPeriod(raw[i])]

\* An area past its cap is no area: cut short, it would be another one.
ReadArea(blob) == IF Len(Items(blob, "area")) > MaxArea THEN <<>> ELSE Items(blob, "area")

ReportKinds == {"METAR", "SPECI", "TAF", "NOTAM"}
ReportTexts == {"kind", "src", "format", "issued_at", "issued_query", "station", "station_name",
                "issued", "summary", "region", "source", "lead", "trail", "rows_dropped"}

ReportFromProps(blob) ==
    LET rows == ReadRows(blob, "rows")
        remarks == ReadRows(blob, "remarks")
        periods == ReadPeriods(blob)
    IN  IF \/ ~IsObject(blob) \/ Items(blob, "version") # <<1>>
           \/ \E key \in ReportTexts : Text(blob, key) = Ill
           \/ Text(blob, "source") \notin {"message", "fence"}
           \/ Text(blob, "kind") \notin ReportKinds
           \/ ~Stated(Text(blob, "src"))
           \/ Stated(Text(blob, "format")) # (Items(blob, "value") # Nothing)
           \/ ~Stated(Text(blob, "issued_at"))
           \/ HasRefused(ToSet(rows) \cup ToSet(remarks)) \/ HasRefused(ToSet(periods))
        THEN Nothing
        ELSE [key \in ReportTexts |-> Text(blob, key)]
             @@ [value |-> Items(blob, "value"), radius |-> Items(blob, "radius_nm"),
                 area |-> ReadArea(blob), rows |-> rows, remarks |-> remarks, periods |-> periods,
                 flags |-> Items(blob, "flags"), unknown |-> Items(blob, "unknown"),
                 rowsDropped |-> Text(blob, "rows_dropped") = "1"]

Restricted(report) == \E i \in DOMAIN report.rows : report.rows[i].label = "Restriction"

-----------------------------------------------------------------------------
(* What is drawn of a report.                                              *)
ReportColor(report) == IF Restricted(report) THEN "restriction" ELSE "report"

ReportPlaced(report) ==
    IF Stated(report.format) /\ Placeable(report.value) THEN report.value ELSE Nothing

\* Meters in the code, nautical miles here.
RadiusEllipse(report) ==
    IF report.radius = <<>> \/ report.radius = <<NaN>> THEN Nothing
    ELSE IF report.radius[1] <= 0 THEN Nothing
    ELSE [major |-> report.radius[1], minor |-> report.radius[1], color |-> ReportColor(report)]

\* Whole or not at all.
ReportShapes(report) ==
    IF \/ Len(report.area) < MinArea
       \/ \E i \in DOMAIN report.area : ~Placeable(report.area[i]) \/ report.area[i].lon = NaN
    THEN <<>>
    ELSE <<[rings |-> <<report.area>>, closed |-> TRUE, color |-> ReportColor(report)]>>

ReportLabel(report) ==
    CASE ReportShapes(report) # <<>> -> "area"
      [] ReportShapes(report) = <<>> /\ RadiusEllipse(report) # Nothing -> "radius"
      [] OTHER -> "station"

ReportCanvas(report, pageEnabled, postId) ==
    IF ReportPlaced(report) = Nothing THEN Nothing
    ELSE [at       |-> report.value,
          markers  |-> <<[at |-> report.value, color |-> ReportColor(report)]>>,
          accuracy |-> Nothing,
          ellipse  |-> RadiusEllipse(report),
          shapes   |-> ReportShapes(report),
          label    |-> ReportLabel(report),
          larger   |-> CASE ~pageEnabled -> ""
                         [] pageEnabled /\ postId # "" -> "the post's map"
                         [] OTHER -> "the position's map"]

(* The sidebar offers no section of a report to hide.                      *)
ReportMapShown(report, surface, features, hidden) ==
    /\ IF surface = "card" THEN features.mapInline /\ "inline" \notin hidden.location
                           ELSE features.mapPanel
    /\ ReportPlaced(report) # Nothing

-----------------------------------------------------------------------------
(* What is said of a report: rows, as [label, value].                      *)
Row(label, value) == [label |-> label, value |-> value]
Bare(rows) == [i \in DOMAIN rows |-> Row(rows[i].label, rows[i].value)]

IssuedRows(report) ==
    (IF Stated(report.issued)
     THEN <<Row(IF report.kind = "NOTAM" THEN "Effective" ELSE "Issued", report.issued)>> ELSE <<>>)
    \o (IF report.flags = <<>> THEN <<>> ELSE <<Row("Flags", report.flags[1])>>)

\* What the rows above or the restriction itself say already.
BodyRows(report) ==
    SelectSeq(report.rows, LAMBDA row :
        /\ Restricted(report) => row.label # "Text"
        /\ ~(report.kind = "NOTAM" /\ row.label = "Effective" /\ Stated(report.issued)))

ReportDetail(report) ==
    ToSet(IssuedRows(report)) \cup ToSet(Bare(BodyRows(report))) \cup ToSet(Bare(report.remarks))
        \cup UNION {ToSet(Bare(report.periods[i].rows)) : i \in DOMAIN report.periods}
        \cup {Row("Not decoded", text) : text \in ToSet(report.unknown)}

Source(report) == Row("As posted", report.src)

ReportCardShows(report, compact) ==
    (IF compact \/ report.rowsDropped THEN {Source(report)} ELSE {})
        \cup (IF compact THEN {} ELSE ReportDetail(report))

ReportPanelShows(report) == ReportDetail(report) \cup {Source(report)}

-----------------------------------------------------------------------------
(* The airfields of a message, in its order.                               *)
ReadEntry(entry) ==
    IF \/ ~IsObject(entry)
       \/ {Text(entry, "ident"), Text(entry, "code")} \cap {"", Ill} # {}
       \/ Text(entry, "name") = Ill
       \/ Stated(Text(entry, "format")) # (Items(entry, "value") # Nothing)
    THEN Refused
    ELSE [ident |-> entry.ident, code |-> entry.code, name |-> Text(entry, "name"),
          at |-> Items(entry, "value")]

AirfieldsFromProps(blob) ==
    LET raw == Items(blob, "airfields")
    IN  IF \/ ~IsObject(blob) \/ Items(blob, "version") # <<1>>
           \/ Len(raw) \notin 1 .. MaxAirfields
           \/ \E i \in DOMAIN raw : ReadEntry(raw[i]) = Refused
        THEN Nothing
        ELSE [airfields |-> [i \in DOMAIN raw |-> ReadEntry(raw[i])]]

\* The card stands down where the message's links are not these airfields.
Agrees(codes, route) == codes = [i \in DOMAIN route.airfields |-> route.airfields[i].code]

RouteMarkers(route) ==
    LET placed == SelectSeq(route.airfields, LAMBDA a : Placeable(a.at))
    IN  [i \in DOMAIN placed |-> [at |-> placed[i].at, color |-> "airfield"]]

Leg(run) == [rings |-> <<run>>, closed |-> FALSE, color |-> "airfield"]

(* A line for each run of neighbours that have one: an airfield without a  *)
(* place breaks it, so that no leg joins two that are not next to another. *)
RouteLegs(route) ==
    LET flush(legs, run) == IF Len(run) < 2 THEN legs ELSE Append(legs, Leg(run))
        walked == FoldLeft(LAMBDA w, airfield :
                      IF Placeable(airfield.at) THEN [w EXCEPT !.run = Append(@, airfield.at)]
                      ELSE [legs |-> flush(w.legs, w.run), run |-> <<>>],
                      [legs |-> <<>>, run |-> <<>>], route.airfields)
    IN  flush(walked.legs, walked.run)

RouteLabel(route) ==
    [airfields |-> Len(RouteMarkers(route)),
     legs |-> FoldLeft(LAMBDA n, leg : n + Len(leg.rings[1]) - 1, 0, RouteLegs(route))]

AirfieldsCanvas(route, pageEnabled, postId) ==
    IF RouteMarkers(route) = <<>> THEN Nothing
    ELSE [at |-> Nothing, markers |-> RouteMarkers(route), accuracy |-> Nothing, ellipse |-> Nothing,
          shapes |-> RouteLegs(route), label |-> RouteLabel(route),
          larger |-> IF pageEnabled /\ postId # "" THEN "the post's map" ELSE ""]

AirfieldsMapShown(route, features, hidden) ==
    features.mapInline /\ "inline" \notin hidden.location /\ RouteMarkers(route) # <<>>

-----------------------------------------------------------------------------
(* The airport of a map link: a runway with both of its ends, or not.      *)
ReadEnds(runway) ==
    LET ends == Items(runway, "ends")
    IN  IF Len(ends) # 2 \/ \E i \in DOMAIN ends : ends[i] = Nothing THEN Refused ELSE [ends |-> ends]

AirportFromBlob(blob) ==
    LET runways == Items(blob, "runways")
    IN  IF \/ ~IsObject(blob) \/ Text(blob, "ident") \in {"", Ill} \/ Text(blob, "name") = Ill
           \/ Items(blob, "coordinate") = Nothing
           \/ \E i \in DOMAIN runways : ReadEnds(runways[i]) = Refused
        THEN Nothing
        ELSE [ident |-> blob.ident, name |-> Text(blob, "name"), coordinate |-> blob.coordinate,
              runways |-> [i \in DOMAIN runways |-> ReadEnds(runways[i])]]

RunwayShapes(runways) ==
    LET drawn == SelectSeq(runways, LAMBDA r : \A i \in DOMAIN r.ends : Placeable(r.ends[i]))
    IN  [i \in DOMAIN drawn |-> [rings |-> <<drawn[i].ends>>, closed |-> FALSE, color |-> "airfield"]]

AirportCanvas(airport) ==
    IF airport.coordinate.lat = NaN THEN Nothing
    ELSE [at |-> airport.coordinate, markers |-> <<>>, accuracy |-> Nothing, ellipse |-> Nothing,
          shapes |-> RunwayShapes(airport.runways), label |-> Len(RunwayShapes(airport.runways)),
          larger |-> ""]
=============================================================================
