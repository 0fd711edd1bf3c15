------------------------- MODULE MCDocumentSurfaces -------------------------
(* The posts of the runs of DocumentSurfaces: what the server stamps, for  *)
(* each of the four kinds of document.                                     *)
EXTENDS DocumentSurfaces

P(lat, lon) == [lat |-> lat, lon |-> lon]
V(lat, lon) == [lat |-> <<lat>>, lon |-> <<lon>>]
MCSecant == [lat \in -90 .. 90 |-> IF lat \in -59 .. 59 THEN 1 ELSE IF lat = 60 THEN 2 ELSE 0]

-----------------------------------------------------------------------------
Track(uid, lat, lon) ==
    [uid |-> uid, cotType |-> "a-f-G", typeLabel |-> "Ground", format |-> "dd", value |-> "at",
     lat |-> <<lat>>, lon |-> <<lon>>, affiliation |-> "friend", stale |-> "later", timeAt |-> <<1000>>, staleAt |-> <<91000>>]
Drawn(kind, points, closed) == [kind |-> kind, points |-> points, closed |-> closed]
Ellipse(n) == [kind |-> "ellipse", majorMeters |-> <<n>>, minorMeters |-> <<1>>, angleDegrees |-> <<90>>]
CotPost(events) ==
    [kind |-> "cot", blob |-> [version |-> 2, source |-> "fence", src |-> "xml", events |-> events],
     fileIds |-> {}, codes |-> <<>>]

Chat == Track("chat", 10, 20) @@ [class |-> "chat", chatSender |-> "ada", chatRoom |-> "long",
    takcontrol |-> "t", geometry |-> Ellipse(3), colorArgb |-> "#rrggbb", ceMeters |-> <<2>>]
Outline == Track("outline", 0, 179) @@ [geometry |-> Drawn("polyline", <<V(0, 178), V(1, -179)>>, "")]
Noted == [Track("noted", 5, 5) EXCEPT !.affiliation = "hostile"]
    @@ [geometry |-> Drawn("polygon", <<V(5, 5), V(6, 6), V(5, 7)>>, "1") @@ [note |-> "not drawn"]]
Unplaced == [Track("polar", 89, 5) EXCEPT !.affiliation = "joker"] @@ [geometry |-> Ellipse(2)]
Route == Track("route", 1, 1) @@ [class |-> "video", videoUrl |-> "url", routeType |-> "primary",
    flow |-> <<[system |-> "hub", time |-> "t"], [time |-> "t"]>>, detailUnknown |-> <<2>>]
Medevac == Track("medevac", 1, 1) @@ [class |-> "medevac", medevacUrgent |-> "long", medevacPriority |-> "2",
    medevacRoutine |-> "1", checklist |-> [count |-> "2", kinds |-> <<[name |-> "a"], [count |-> "1"]>>],
    remarks |-> "r", role |-> "lead", speed |-> "3", course |-> "4"]

CotPosts == <<
    CotPost(<<Chat>>), CotPost(<<Route>>), CotPost(<<Medevac>>),
    CotPost(<<Outline, Noted, Unplaced>>), CotPost(<<Chat, Noted>>),
    [CotPost(<<Outline>>) EXCEPT !.blob = @ @@ [fileId |-> "f"], !.blob.source = "file", !.fileIds = {"f"}],
    [CotPost(<<Chat>>) EXCEPT !.blob.version = 3] >>

-----------------------------------------------------------------------------
Part(kind, rings) == [kind |-> kind, rings |-> rings]
Feature(name, kind, parts) == [name |-> name, kind |-> kind, parts |-> parts]
Hex == [kind |-> "hex", name |-> "red"]

Island(lat, lon) == <<V(lat, lon), V(lat, lon + 4), V(lat + 4, lon + 4), V(lat, lon)>>
Islands == Feature("islands", "MultiPolygon",
    <<Part("MultiPolygon", <<Island(0, 0), Island(40, 40)>>) @@ [ring_counts |-> <<1, 1>>]>>)
Donut == Feature("donut", "Polygon",
    <<Part("Polygon", <<Island(0, 0), <<V(1, 2), V(1, 3), V(2, 3), V(1, 2)>>>>)>>) @@ [color |-> Hex, area |-> "9 km2"]
Point == Feature("point", "Point", <<Part("Point", <<<<V(0, 9)>>>>)>>)
    @@ [format |-> "dd", value |-> "at", properties |-> <<[key |-> "name", value |-> "point"],
        [key |-> "description", value |-> "told"], [key |-> "depth", value |-> "3 m"]>>]
NotedLine == Feature("noted", "LineString", <<Part("LineString", <<<<V(0, 170), V(0, -170)>>>>)>>)
    @@ [note |-> "crosses", length |-> "20 km"]
Polar == Feature("polar", "LineString", <<Part("LineString", <<<<V(84, 0), V(89, 0)>>>>)>>)
Mixed == Feature("mixed", "GeometryCollection",
    <<Part("Point", <<<<V(3, 3)>>>>), Part("LineString", <<<<V(3, 3), V(4, 4)>>>>)>>)

GeoPost(fs) ==
    [kind |-> "geojson", fileIds |-> {}, codes |-> <<>>,
     blob |-> [version |-> <<1>>, source |-> "fence", src |-> "json", name |-> "plan", features |-> fs]]
GeoPosts == <<
    GeoPost(<<Islands, Point>>), GeoPost(<<Donut, NotedLine>>), GeoPost(<<Mixed>>),
    [GeoPost(<<Point>>) EXCEPT !.blob = @ @@ [unplaceable |-> "1", note |-> "elsewhere"]],
    [GeoPost(<<Point>>) EXCEPT !.blob = @ @@ [fileId |-> "f", fileName |-> "p.json"],
                               !.blob.source = "file", !.blob.name = "", !.fileIds = {"f"}] >>
PolarPosts == <<GeoPost(<<Polar, Point>>)>>

-----------------------------------------------------------------------------
Report(kind) ==
    [version |-> <<1>>, source |-> "message", kind |-> kind, src |-> "as sent", format |-> "dd",
     value |-> P(10, 10), issued_at |-> "1", issued |-> "today", station |-> "EDDF",
     rows |-> <<[label |-> "Effective", value |-> "today"], [label |-> "Wind", value |-> "5"]>>]
Restriction(area) == [Report("NOTAM") EXCEPT !.rows = <<[label |-> "Restriction", value |-> "R"],
                                                        [label |-> "Text", value |-> "all"]>>]
    @@ [area |-> area, radius_nm |-> <<2>>]
ReportPost(blob) == [kind |-> "report", blob |-> blob, fileIds |-> {}, codes |-> <<>>]
ReportPosts == <<
    ReportPost(Report("METAR") @@ [unknown |-> <<"XX">>, flags |-> <<"auto">>,
        periods |-> <<[period |-> "later", rows |-> <<[label |-> "Wind", value |-> "9"]>>]>>]),
    ReportPost(Report("TAF") @@ [rows_dropped |-> "1"]),
    ReportPost(Restriction(<<P(9, 9), P(9, 11), P(11, 11), P(11, 9)>>)),
    ReportPost(Restriction(<<P(84, 9), P(84, 11), P(88, 11), P(84, 8)>>)),
    ReportPost([Report("SPECI") EXCEPT !.format = "", !.value = Nothing]) >>

-----------------------------------------------------------------------------
Airfield(code, at) == [ident |-> code, code |-> code, name |-> "field", value |-> at,
                       format |-> IF at = Nothing THEN "" ELSE "dd"]
RoutePost(airfields) ==
    [kind |-> "airfields", fileIds |-> {}, codes |-> [i \in DOMAIN airfields |-> airfields[i].code],
     blob |-> [version |-> <<1>>, airfields |-> airfields]]
RoutePosts == <<
    RoutePost(<<Airfield("EDDF", P(50, 8)), Airfield("EGLL", P(51, 0)), Airfield("EHAM", P(52, 5))>>),
    RoutePost(<<Airfield("EDDF", P(50, 8)), Airfield("ZZZZ", Nothing), Airfield("EGLL", P(51, 0)),
                Airfield("EHAM", P(52, 5))>>),
    RoutePost(<<Airfield("ZZZZ", Nothing)>>) >>

MCAirports == {[ident |-> "EDDF", name |-> "", coordinate |-> P(50, 8),
                runways |-> <<[ends |-> <<P(50, 8), P(50, 9)>>], [ends |-> <<P(50, 8), P(NaN, 9)>>]>>]}

MCPosts == CotPosts \o GeoPosts \o ReportPosts \o RoutePosts \o PolarPosts
=============================================================================
