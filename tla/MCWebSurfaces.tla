--------------------------- MODULE MCWebSurfaces ---------------------------
(* What the web app reads, writes out and draws, in one run: a map in use  *)
(* (MapPicture), a stamped post on its surfaces (DocumentSurfaces), a      *)
(* coordinate on its own (LocationReadings), two editors of a reader's     *)
(* preferences (WebPreferences), an indicator (CyberView), an airfield     *)
(* (AirfieldView) or a frequency (FrequencyReading).  They share no state: *)
(* `scene` says which of them moves, and the others rest in an initial     *)
(* state.                                                                  *)
EXTENDS WebPreferences, MCMapPicture, MCDocumentSurfaces, LocationReadings, LookupViews, ReadingsCases, CyberCases, AirfieldCases

CONSTANTS t1, e1, e2, location, cot

VARIABLES scene, frequency

SameTab  == [e \in Editor |-> t1]
Sections == [e \in Editor |-> IF e = e1 THEN location ELSE cot]

CyberWebLinks == {"web", "fix"}
CyberDtgQueries == {"dtg"}

Frequencies == INSTANCE FrequencyReading WITH FrequencyTokens <- FrequencyTokenCases

fact_vars == <<airfield_vars, frequency>>
surfaces == <<scene, picture_vars, surface_vars, coordinate_vars, location_vars, vars, cyber_view_vars, fact_vars>>

PictureRests ==
    /\ overlay = OnePoint(Placed(Spot(0, 179), "friendly", TRUE))
    /\ details = {} /\ lens = [box |-> PointBox(Spot(0, 179)), zoom |-> 0] /\ cap = GlobalCap({}, lens.box) /\ moving = FALSE
    /\ images = {"friendly"} /\ icons = {"friendly"}

PostRests ==
    /\ post = [name |-> 1, payload |-> Nothing, lost |-> TRUE, edited |-> TRUE, fileIds |-> {}]
    /\ features = [mapInline |-> TRUE, mapPanel |-> TRUE, mapPage |-> TRUE]
    /\ hidden = [location |-> {}, cot |-> {}, geojson |-> {}]
    /\ compact = FALSE /\ focus = NoFocus /\ panel = Nothing /\ link = FALSE /\ page = Nothing

CoordinateRests == token = Local /\ drift = 0 /\ reading = None

AirfieldRests ==
    /\ airfield = Looking([key |-> "icao", code |-> "KAAA"])
    /\ switches = {} /\ wentTo = <<>>
FrequencyRests == frequency = [whole |-> 2000, digits |-> 4, fraction |-> <<>>, unit |-> ""]

\* Bounds: the rows that are copied, and those a reader hides.
FewMoves == Moves({"raw", "mgrs"}, {"raw", "map", "inline"} \cap Offered)

AllInit ==
    /\ scene \in {"picture", "post", "token", "copying", "surfaces", "page", "editors", "indicator", "airfield", "frequency"}
    /\ IF scene = "picture" THEN PictureInit ELSE PictureRests
    /\ IF scene = "post" THEN SurfacesInit ELSE PostRests
    /\ IF scene = "token" THEN CoordinateInit ELSE CoordinateRests
    /\ LocationInit
    /\ CyberViewInit
    /\ IF scene = "airfield" THEN AirfieldInit ELSE AirfieldRests
    /\ IF scene = "frequency" THEN Frequencies!FrequencyInit ELSE FrequencyRests
    /\ Init /\ server = [s \in Section |-> IF scene = "editors" THEN 1 ELSE 0]

AllNext ==
    /\ UNCHANGED scene
    /\ \/ scene = "picture" /\ PictureNext
              /\ UNCHANGED <<surface_vars, coordinate_vars, location_vars, vars, cyber_view_vars, fact_vars>>
       \/ scene = "post" /\ SurfacesNext
              /\ Cardinality({name \in DOMAIN features' : ~features'[name]}) <= 1   \* bound: one switch off
              /\ UNCHANGED <<picture_vars, coordinate_vars, location_vars, vars, cyber_view_vars, fact_vars>>
       \/ scene = "token" /\ WriteOut
              /\ UNCHANGED <<picture_vars, surface_vars, location_vars, vars, cyber_view_vars, fact_vars>>
       \/ scene = "copying" /\ FewMoves
              /\ hover' = None /\ inline' = None
              /\ UNCHANGED <<picture_vars, surface_vars, coordinate_vars, vars, cyber_view_vars, fact_vars>>
       \/ scene = "surfaces" /\ FewMoves /\ writes' = {} /\ clicks' <= 1
              /\ (hover' = None \/ inline' = None)   \* bound: one surface beside the panel
              /\ UNCHANGED <<picture_vars, surface_vars, coordinate_vars, vars, cyber_view_vars, fact_vars>>
       \/ scene = "page" /\ (\E shell \in Shells : OpenPage(shell))
              /\ UNCHANGED <<picture_vars, surface_vars, coordinate_vars, vars, cyber_view_vars, fact_vars>>
       \/ scene = "editors" /\ Next
              /\ ~editor'[e2].touched   \* bound: of two alike, one is edited; the other saves what it read, or a reset
              /\ UNCHANGED <<picture_vars, surface_vars, coordinate_vars, location_vars, cyber_view_vars, fact_vars>>
       \/ scene = "indicator" /\ CyberViewNext
              /\ UNCHANGED <<picture_vars, surface_vars, coordinate_vars, location_vars, vars, fact_vars>>
       \/ scene = "airfield" /\ AirfieldNext /\ UNCHANGED frequency
              /\ UNCHANGED <<picture_vars, surface_vars, coordinate_vars, location_vars, vars, cyber_view_vars>>

AllSpec == AllInit /\ [][AllNext]_surfaces

-----------------------------------------------------------------------------
(* Every notation of a coordinate names the cell its author wrote, and no  *)
(* other (format.ts); every notation of a frequency is the one written,    *)
(* in the band and channel it lies in (frequency/index.ts, bands.ts).      *)
ReadingsNameTheirCell == NotationsNameTheCell /\ Frequencies!FrequencyIsTheOneWritten
=============================================================================
