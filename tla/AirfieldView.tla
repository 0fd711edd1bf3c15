----------------------------- MODULE AirfieldView -----------------------------
(***************************************************************************)
(* An airfield in the web app (webapp/src/decorators/airport): the reading *)
(* of the server's answer (airport.ts), the sidebar panel with its map and *)
(* the way on to the position (AirportPanel), and the card over the token  *)
(* (AirportHover).  Panel and card draw the one answer the cached client   *)
(* gives them, whose cache is CachedClient's; here it is one variable.     *)
(* One airfield: a panel that goes on to another one, and the answers that *)
(* may reach it between the render and its effect, are CachedClient's too. *)
(*                                                                         *)
(* A code is a model string.  A field the server left out, or sent with    *)
(* the wrong type, is not in the record's DOMAIN.                          *)
(***************************************************************************)
EXTENDS Integers, Sequences, FiniteSets, SequencesExt

CONSTANTS
    AirfieldLinks,     \* parameters of links: functions from "v", "i" to codes
    IdentCodes,        \* what IDENT matches
    IataCodes,         \* what IATA matches
    AirfieldPositions, \* the [format, value] pairs the location decorator reads
    DrawablePositions, \* those of them at a latitude a map draws
    AirfieldReplies    \* what the server may say: a set of [http, body]

VARIABLES
    airfield,   \* the panel's and the card's state: [of, status, reply]
    switches,   \* the map features that are on
    wentTo      \* where the Place row led, or <<>>

airfield_vars == <<airfield, switches, wentTo>>

-----------------------------------------------------------------------------
\* A link names an airfield by exactly one of its codes.
AirfieldFromParams(link) ==
    IF Cardinality(DOMAIN link) # 1 THEN {}
    ELSE {[key |-> "icao", code |-> c] : c \in {link[p] : p \in DOMAIN link \cap {"v"}} \cap IdentCodes}
         \cup {[key |-> "iata", code |-> c] : c \in {link[p] : p \in DOMAIN link \cap {"i"}} \cap IataCodes}

DetailFields == {"name", "type", "place", "elevation", "iata", "military", "runways", "frequencies"}
RunwayFields == {"designation", "summary", "length", "width", "surface", "lighted", "closed"}
FrequencyFields == {"type", "description", "mhz"}

AsEnd(end) == {"format", "value"} \subseteq DOMAIN end /\ end.format # "" /\ end.value # ""

AsRunway(runway) ==
    /\ RunwayFields \subseteq DOMAIN runway
    /\ "ends" \in DOMAIN runway => Len(runway.ends) = 2 /\ \A e \in ToSet(runway.ends) : AsEnd(e)

AsDetails(airport) ==
    /\ DetailFields \subseteq DOMAIN airport
    /\ \A runway \in ToSet(airport.runways) : AsRunway(runway)
    /\ \A frequency \in ToSet(airport.frequencies) : FrequencyFields \subseteq DOMAIN frequency

AsCoordinate(coordinate) == AsEnd(coordinate) /\ "region" \in DOMAIN coordinate

AsAirport(wire) ==
    /\ {"found", "ident", "iata"} \subseteq DOMAIN wire
    /\ wire.iata \in IataCodes \cup {""}
    /\ IF wire.found
       THEN /\ wire.ident \in IdentCodes
            /\ "airport" \in DOMAIN wire /\ AsDetails(wire.airport)
            /\ "coordinate" \in DOMAIN wire => AsCoordinate(wire.coordinate)
       ELSE wire.ident \in IdentCodes \cup {""}

AnswersTheQuestion(wire, of) == IF of.key = "iata" THEN wire.iata = of.code ELSE wire.ident = of.code

ReadAirport(of, reply) ==
    CASE reply.http = 400 -> "rejected"
      [] reply.http = 200 -> IF AsAirport(reply.body) /\ AnswersTheQuestion(reply.body, of) THEN "ready" ELSE "failed"
      [] OTHER -> "failed"

-----------------------------------------------------------------------------
PositionPayload(c) == {[format |-> c.format, value |-> c.value]} \cap AirfieldPositions

Said == airfield.reply.body
Found == airfield.status = "ready" /\ Said.found

\* The airfield's position, as a set of at most one.
PositionOf ==
    IF ~Found \/ "coordinate" \notin DOMAIN Said THEN {} ELSE PositionPayload(Said.coordinate)

\* A runway is drawn between two ends that parse and that a map can draw.
RunwayShapes(runways) ==
    SelectSeq(runways, LAMBDA r : "ends" \in DOMAIN r /\ \A e \in ToSet(r.ends) : PositionPayload(e) \cap DrawablePositions # {})

NoMap == [at |-> {}, pending |-> FALSE, runways |-> 0, larger |-> {}]

Map ==
    IF "mapPanel" \notin switches \/ (PositionOf = {} /\ airfield.status # "loading") THEN {}
    ELSE IF PositionOf = {} THEN {[NoMap EXCEPT !.pending = TRUE]}
    ELSE LET drawn == Len(RunwayShapes(Said.airport.runways))
         IN  {[at |-> PositionOf, pending |-> FALSE, runways |-> drawn,
               larger |-> IF "mapPage" \in switches THEN {Said.ident} ELSE {}]}

AirfieldNote ==
    CASE airfield.status = "loading"  -> "Looking up this airfield"
      [] airfield.status = "rejected" -> "Not an airfield code"
      [] airfield.status = "failed"   -> "This airfield could not be looked up just now"
      [] airfield.status = "ready" /\ ~Found -> "not in this build's airfield database"
      [] Found /\ PositionOf # {}     -> ""
      [] Found /\ PositionOf = {}     ->
            IF "coordinate" \in DOMAIN Said THEN "a position this build cannot read" ELSE "no position in the database"

MilitaryUse(airport) == IF airport.military = "" THEN "" ELSE "Military"
Named == IF Said.airport.name # "" THEN Said.airport.name ELSE Said.ident

\* The rows of the panel, each with whether it can be copied.
AirfieldRows ==
    LET a == Said.airport
        row(label, value, copyable) == IF value = "" THEN {} ELSE {[label |-> label, value |-> value, copyable |-> copyable]}
    IN  row("Code", Said.ident, TRUE) \cup row("Place", a.place, TRUE) \cup row("Use", MilitaryUse(a), FALSE)
        \cup row("Type", a.type, FALSE) \cup row("Elevation", a.elevation, TRUE) \cup row("IATA", a.iata, TRUE)

AirfieldPanel ==
    IF ~Found THEN [name |-> "", ident |-> "", rows |-> {}, runways |-> 0, frequencies |-> <<>>, note |-> AirfieldNote, map |-> Map]
    ELSE [name |-> Named, ident |-> IF Said.ident # airfield.of.code THEN Said.ident ELSE "", rows |-> AirfieldRows,
          runways |-> Len(Said.airport.runways), frequencies |-> Said.airport.frequencies, note |-> AirfieldNote, map |-> Map]

AirfieldCard == IF ~Found THEN [name |-> "", place |-> ""] ELSE [name |-> Named, place |-> Said.airport.place]

-----------------------------------------------------------------------------
Looking(of) == [of |-> of, status |-> "loading", reply |-> [http |-> 0, body |-> <<>>]]

AirfieldInit ==
    /\ \E link \in AirfieldLinks : \E of \in AirfieldFromParams(link) : airfield = Looking(of)
    /\ switches \in SUBSET {"mapPanel", "mapPage"}
    /\ wentTo = <<>>

LookedUp(reply) ==
    /\ airfield.status = "loading"
    /\ airfield' = [airfield EXCEPT !.status = ReadAirport(airfield.of, reply), !.reply = reply]
    /\ UNCHANGED <<switches, wentTo>>

\* The Place row is a button while there is a position to go to.
OpenPosition ==
    /\ Found /\ Said.airport.place # ""
    /\ \E p \in PositionOf : wentTo' = <<p>>
    /\ UNCHANGED <<airfield, switches>>

AirfieldNext == (\E reply \in AirfieldReplies : LookedUp(reply)) \/ OpenPosition

AirfieldSpec == AirfieldInit /\ [][AirfieldNext]_airfield_vars

-----------------------------------------------------------------------------
\* What is shown is about the airfield asked for, under either of its codes.
IsTheOneAsked ==
    airfield.status = "ready" => airfield.of.code \in {Said.ident, Said.iata}

\* The pin, the Place row and the larger map all mean one place, the one the
\* server gave, and a panel without a place says why.
OnePlace ==
    /\ \A m \in Map : m.at = PositionOf /\ (m.larger # {} => m.larger = {Said.ident})
    /\ wentTo # <<>> => ToSet(wentTo) = PositionOf
    /\ Found /\ PositionOf = {} => Map = {} /\ AirfieldPanel.note # ""
    /\ airfield.status = "loading" => \A m \in Map : m.pending /\ m.at = {}

CardIsOfThePanel ==
    /\ AirfieldCard.name = AirfieldPanel.name
    /\ AirfieldCard.place # "" => \E row \in AirfieldPanel.rows : row.label = "Place" /\ row.value = AirfieldCard.place

(* Panel, map and card show one airfield, the one asked for, and put it    *)
(* where the server did or say why not (AirportPanel.tsx, airport.ts).     *)
AirfieldIsTheOneAsked == IsTheOneAsked /\ OnePlace /\ CardIsOfThePanel
=============================================================================
