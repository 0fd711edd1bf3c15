-------------------------- MODULE LocationReadings --------------------------
(***************************************************************************)
(* A coordinate on the surfaces that show one: the sidebar's panel with    *)
(* its rows and copy buttons, the hover card, the map under a post and the *)
(* standalone pages (webapp/src/decorators/location, webapp/src/page).     *)
(*                                                                         *)
(* What the token yields is written out here (CoordinateFormat); the rest  *)
(* comes from the server's conversion, which also says whether the link is *)
(* one the plugin issued.  A render and its effects are two steps: React   *)
(* runs the effects some time after the frame is drawn, and at the latest  *)
(* before it renders again, so a reply, a click on a button or the end of  *)
(* a clipboard write may come in between and meet the effects of the       *)
(* render before.                                                          *)
(***************************************************************************)
EXTENDS CoordinateFormat

CONSTANTS
    Links,      \* [token, raw, issued, polar]: what a reader may click
    Shells,     \* the documents the server writes for a page
    MaxClicks,  \* clicks on links and buttons
    MaxToggles  \* changes of the reader's or the administrator's settings

ASSUME LinkAssumption == None \notin Links

VARIABLES
    coordinatePanel, \* the sidebar: a link, its conversion's state, and the editor
    hover,           \* the hover card, the same
    inline,          \* the map under a post, the same, once it is near the viewport
    due,             \* the last render's effects have not run
    coordinatePage,  \* a standalone page
    answers,         \* the conversions the server decided
    inflight,        \* the links a conversion is under way for
    hiddenRows,      \* the rows and maps the reader hid
    maps,            \* the map surfaces the administrator left on
    button,          \* the copy button of each row
    writes,          \* clipboard writes under way
    clipboard,
    clicks, toggles

settings == <<hiddenRows, maps, toggles>>
requests == <<answers, inflight>>
copying == <<button, writes, clipboard>>
location_vars == <<coordinatePanel, hover, inline, due, coordinatePage, requests, settings, copying, clicks>>

Grids == {"mgrs", "utm"}
Texts == {"decimal", "dms", "ddm", "usmtf"}
Areas == {"georef", "gars", "pluscode"}
Rows == {"raw", "canonical", "resolution", "confidence", "datum"} \cup Texts \cup Grids \cup Areas
Copyable == Rows \ {"resolution", "confidence", "datum"}
MapSurfaces == {"panel", "page", "inline"}
NoButton == [value |-> None, seen |-> None, copied |-> FALSE, last |-> None]

-----------------------------------------------------------------------------
\* What a link's query carries: the author's own text where it is not the token,
\* which passes the two gates that need no grammar, or is refused by them.
FromParams(link) ==
    LET coord == ParseCanonical(link.token, 0)
    IN  IF \/ link.token.format \notin LocalFormats \cup RemoteFormats
           \/ ~IsCanonical(link.token)
           \/ coord = None /\ link.token.format \notin RemoteFormats
           \/ link.raw = "foreign"
        THEN None
        ELSE [coord |-> coord, link |-> link]

\* A page has nothing to fall through to: a token this build does not recognize
\* is shown from the server's conversion alone.
PayloadFor(shell) ==
    IF FromParams(shell.link) # None THEN FromParams(shell.link)
    ELSE [coord |-> None, link |-> shell.link]

\* asConversion: every field is there, and the position is on the globe.
ConversionFrom(shell) == IF shell.conversion = "whole" THEN "ready" ELSE "failed"

MapsFrom(shell) == IF shell.maps = <<>> THEN MapSurfaces ELSE shell.maps[1] \ {"inline"}

\* The readings the server sends: none on a grid near the poles.
Converted(link) == (Texts \cup Grids \cup Areas) \ (IF link.polar THEN Grids ELSE {})

-----------------------------------------------------------------------------
Placeholders == {"pending", "unavailable"}

\* A value the server owns, or which of two reasons it is not here yet.
Remote(row, link, status) ==
    IF status = "ready" /\ row \in Converted(link) THEN "server"
    ELSE IF status = "loading" THEN "pending" ELSE "unavailable"

\* Only what the token says of itself.
GridRowAlone(payload, row, status) ==
    IF payload.link.token.format = row THEN (IF GridText(payload.link.token) = None THEN "" ELSE "token")
    ELSE Remote(row, payload.link, status)

\* A grid token is its own row, unless this build cannot slice it.
GridRow(payload, row, status) ==
    IF payload.link.token.format = row /\ GridText(payload.link.token) # None THEN "token"
    ELSE Remote(row, payload.link, status)

AreaRow(payload, row, status) ==
    IF payload.link.token.format = row THEN "token" ELSE Remote(row, payload.link, status)

\* Unless the server refused it.
TextUnlessRefused(link, status) ==
    IF status # "rejected" /\ link.raw # "same" THEN "author" ELSE "token"

\* The author's own text, once the server has vouched for it.
VouchedText(link, status) == IF status = "ready" /\ link.raw # "same" THEN "author" ELSE "token"

\* The value of every row; "" is a row that does not apply.
Values(payload, status) ==
    LET link == payload.link
        vouched == VouchedText(link, status)
    IN  [row \in Rows |->
            CASE row = "raw"        -> vouched
              [] row = "canonical"  -> IF vouched = "author" THEN "token" ELSE ""
              [] row = "datum"      -> "fixed"
              [] row = "confidence" -> IF payload.coord = None THEN ""
                                       ELSE IF ConfidenceText(payload.coord) = <<>> THEN "" ELSE "local"
              [] row = "resolution" -> IF payload.coord # None THEN "local"
                                       ELSE IF RemoteCell(link.token) = None THEN "" ELSE "token"
              [] row \in Texts    -> IF payload.coord # None THEN "local" ELSE Remote(row, link, status)
              [] row \in Grids      -> GridRow(payload, row, status)
              [] row \in Areas      -> AreaRow(payload, row, status)]

\* Where a coordinate is drawn and how big its cell is, for every surface.
ViewFor(payload, status) ==
    LET known == payload.coord # None \/ status = "ready"
    IN  [known |-> known,
         at    |-> IF payload.coord # None THEN "local" ELSE IF status = "ready" THEN "server" ELSE "",
         cell  |-> CellDegrees(payload.coord, payload.link.token, known)]

\* A link the server refused has no readings at all.
Readings(payload, status, notShown, on) ==
    IF status = "rejected" THEN [refused |-> TRUE]
    ELSE [rows |-> LET values == Values(payload, status)
                   IN  [row \in Rows |-> IF row \in notShown THEN "" ELSE values[row]],
          map  |-> IF "panel" \in on /\ "map" \notin notShown THEN ViewFor(payload, status) ELSE None,
          link |-> "page" \in on]

IsReading(shown) == "rows" \in DOMAIN shown

-----------------------------------------------------------------------------
PanelShows(p, notShown, on) ==
    IF p = None THEN None
    ELSE IF p.editing THEN [editor |-> TRUE]
    ELSE Readings(FromParams(p.link), p.status, notShown, on)

\* The value a row's copy button copies, where the row has one: whose text it
\* is, and by whose verdict it is there.
CopyValue(shown, p, row) ==
    IF ~IsReading(shown) THEN None
    ELSE IF shown.rows[row] \in Placeholders \cup {""} THEN None
    ELSE [is |-> shown.rows[row], of |-> IF shown.rows[row] = "server" THEN p.by ELSE p.link,
          by |-> p.by, row |-> row]

\* The text alone, which is what the button's effect depends on.
Text(value) == IF value = None THEN None ELSE [is |-> value.is, of |-> value.of, row |-> value.row]

\* A button whose row has no value any more is unmounted.
DrawnButton(b, value) == [b EXCEPT !.value = value, !.copied = @ /\ value # None]

\* The buttons of the panel, as it is rendered.
DrawButtons(buttons, p, notShown, on) ==
    button' = [row \in Copyable |->
                  DrawnButton(buttons[row], IF p = None THEN None ELSE CopyValue(PanelShows(p, notShown, on), p, row))]

Behind(row) == button[row].seen # Text(button[row].value)
SomeBehind == \E row \in Copyable : Behind(row)

\* The panel rendered again, with nothing new for the conversion's effect.
Rerender(p, notShown, on) ==
    /\ DrawButtons(button, p, notShown, on)
    /\ due' = SomeBehind'
    /\ UNCHANGED <<writes, clipboard>>

-----------------------------------------------------------------------------
(* useConversion.  A surface's state is a status and, not known to the     *)
(* code, whose answer that is (`by`); the effect of its render may be due  *)
(* (`fresh`), and the effect before it waits for a request (`waits`) until *)
(* the next one runs, whatever the surface has been rendered for since.    *)
Opened(link) == [link |-> link, status |-> answers[link], by |-> link, fresh |-> TRUE, waits |-> None]

\* The effect: the answer that came since the render is adopted, or asked for,
\* joining a request under way; the state is not touched until it comes.
Flushed(surface) ==
    IF surface = None THEN None
    ELSE IF ~surface.fresh THEN surface
    ELSE IF answers[surface.link] = "loading" THEN [surface EXCEPT !.fresh = FALSE, !.waits = surface.link]
    ELSE [surface EXCEPT !.status = answers[surface.link], !.by = surface.link, !.fresh = FALSE, !.waits = None]

\* An answer is the state of whoever waits for it, its own or not.
Taken(surface, link, status) ==
    IF surface # None /\ surface.waits = link
    THEN [surface EXCEPT !.status = status, !.by = link, !.waits = None] ELSE surface

Mounted == {coordinatePanel, hover, inline} \ {None}

\* The button's effect: another text, or none, clears the acknowledgment.
Settled(b) == IF b.seen = Text(b.value) THEN b ELSE [b EXCEPT !.copied = FALSE, !.seen = Text(b.value)]

\* Its cleanup, where there was a button before, ends the generation of the
\* writes under way.
SameGeneration(row) == button[row].seen # None => ~Behind(row)

\* The effects of the last render, and the render that an adopted or a late
\* answer has asked for.
Effects ==
    /\ due
    /\ coordinatePanel' = Flushed(coordinatePanel) /\ hover' = Flushed(hover) /\ inline' = Flushed(inline)
    /\ inflight' = inflight \cup {s.link : s \in {m \in Mounted : m.fresh /\ answers[m.link] = "loading"}}
    /\ DrawButtons([row \in Copyable |-> Settled(button[row])], coordinatePanel', hiddenRows, maps)
    /\ writes' = {[w EXCEPT !.live = @ /\ SameGeneration(w.value.row)] : w \in writes}
    /\ due' = SomeBehind'
    /\ UNCHANGED <<answers, clipboard, coordinatePage, settings, clicks>>

-----------------------------------------------------------------------------
LocationInit ==
    /\ coordinatePanel = None /\ hover = None /\ inline = None /\ coordinatePage = None
    /\ due = FALSE
    /\ answers = [link \in Links |-> "loading"] /\ inflight = {}
    /\ hiddenRows = {} /\ maps = MapSurfaces
    /\ button = [row \in Copyable |-> NoButton] /\ writes = {} /\ clipboard = None
    /\ clicks = 0 /\ toggles = 0

\* A click opens the panel on another link, and out of the editor on another
\* token.  The panel is not mounted anew: its state is reset in the render, and
\* its old effect waits on for the link before.
Open(link) ==
    /\ FromParams(link) # None /\ clicks < MaxClicks /\ clicks' = clicks + 1
    /\ ~due /\ (coordinatePanel # None => coordinatePanel.link # link)
    /\ coordinatePanel' = [link |-> link, status |-> answers[link], by |-> link, fresh |-> TRUE,
                           waits |-> IF coordinatePanel = None THEN None ELSE coordinatePanel.waits,
                           editing |-> IF coordinatePanel = None THEN FALSE
                                       ELSE coordinatePanel.editing /\ coordinatePanel.link.token = link.token]
    /\ DrawButtons(button, coordinatePanel', hiddenRows, maps) /\ due' = TRUE
    /\ UNCHANGED <<hover, inline, coordinatePage, requests, settings, writes, clipboard>>

\* In and out of the editor, which a refused link does not offer.
Customize ==
    /\ ~due /\ coordinatePanel # None
    /\ coordinatePanel.status = "rejected" => coordinatePanel.editing
    /\ coordinatePanel' = [coordinatePanel EXCEPT !.editing = ~@]
    /\ Rerender(coordinatePanel', hiddenRows, maps)
    /\ UNCHANGED <<hover, inline, coordinatePage, requests, settings, clicks>>

\* With the panel's map off there is no card, and no request.
PointAt(link) ==
    /\ ~due /\ FromParams(link) # None /\ hover = None /\ "panel" \in maps
    /\ hover' = Opened(link) /\ due' = TRUE
    /\ UNCHANGED <<coordinatePanel, inline, coordinatePage, requests, settings, copying, clicks>>

Leave ==
    /\ ~due /\ hover # None /\ hover' = None
    /\ UNCHANGED <<coordinatePanel, inline, due, coordinatePage, requests, settings, copying, clicks>>

\* The map under a post is asked for when the post comes near the viewport.
ScrollNear(link) ==
    /\ ~due /\ FromParams(link) # None /\ inline = None
    /\ "inline" \in maps /\ "inline" \notin hiddenRows
    /\ inline' = Opened(link) /\ due' = TRUE
    /\ UNCHANGED <<coordinatePanel, hover, coordinatePage, requests, settings, copying, clicks>>

HoverShows ==
    IF hover = None \/ "panel" \notin maps THEN None
    ELSE IF hover.status = "rejected" THEN [refused |-> TRUE]
    ELSE [map |-> ViewFor(FromParams(hover.link), hover.status)]

InlineShows ==
    IF inline = None \/ "inline" \notin maps \/ "inline" \in hiddenRows \/ inline.status = "rejected" THEN None
    ELSE [map |-> ViewFor(FromParams(inline.link), inline.status), link |-> "page" \in maps]

\* The request of a link settles: with the server's verdict, which is kept, or
\* with an outage, a stall or a body that is no conversion, which is not.  What
\* it changes is rendered, but never before the effects that are due.
Reply(link, status) ==
    /\ link \in inflight
    /\ status \in {"failed", IF link.issued THEN "ready" ELSE "rejected"}
    /\ answers' = IF status = "failed" THEN answers ELSE [answers EXCEPT ![link] = status]
    /\ inflight' = inflight \ {link}
    /\ coordinatePanel' = Taken(coordinatePanel, link, status)
    /\ hover' = Taken(hover, link, status)
    /\ inline' = Taken(inline, link, status)
    /\ \/ due /\ UNCHANGED <<due, copying>>
       \/ ~due /\ Rerender(coordinatePanel', hiddenRows, maps)
    /\ UNCHANGED <<coordinatePage, settings, clicks>>

Hide(id) ==
    /\ ~due /\ toggles < MaxToggles /\ toggles' = toggles + 1
    /\ hiddenRows' = IF id \in hiddenRows THEN hiddenRows \ {id} ELSE hiddenRows \cup {id}
    /\ inline' = IF "inline" \in hiddenRows' THEN None ELSE inline
    /\ Rerender(coordinatePanel, hiddenRows', maps)
    /\ UNCHANGED <<coordinatePanel, hover, coordinatePage, requests, maps, clicks>>

SwitchMap(surface) ==
    /\ ~due /\ toggles < MaxToggles /\ toggles' = toggles + 1
    /\ maps' = IF surface \in maps THEN maps \ {surface} ELSE maps \cup {surface}
    /\ inline' = IF "inline" \in maps' THEN inline ELSE None
    /\ hover' = IF "panel" \in maps' THEN hover ELSE None
    /\ Rerender(coordinatePanel, hiddenRows, maps')
    /\ UNCHANGED <<coordinatePanel, coordinatePage, requests, hiddenRows, clicks>>

\* The items of the editor: a map is offered only while its surface is on.
Offered == Rows \cup (IF "panel" \in maps THEN {"map"} ELSE {}) \cup (IF "inline" \in maps THEN {"inline"} ELSE {})

\* The text on the button, in the generation of the last effect.
Copy(row) ==
    /\ button[row].value # None /\ clicks < MaxClicks /\ clicks' = clicks + 1
    /\ writes' = writes \cup {[value |-> button[row].value, live |-> TRUE]}
    /\ UNCHANGED <<coordinatePanel, hover, inline, due, coordinatePage, requests, settings, button, clipboard>>

\* The browser writes, or refuses to; a write of a generation that is over is
\* not acknowledged.
WriteSettles(w, ok) ==
    /\ w \in writes
    /\ writes' = writes \ {w}
    /\ clipboard' = IF ok THEN w.value ELSE clipboard
    /\ button' = IF ok /\ w.live /\ button[w.value.row].value # None
                 THEN [button EXCEPT ![w.value.row] = [@ EXCEPT !.copied = TRUE, !.last = w.value]]
                 ELSE button
    /\ UNCHANGED <<coordinatePanel, hover, inline, due, coordinatePage, requests, settings, clicks>>

AcknowledgmentEnds(row) ==
    /\ button[row].copied
    /\ button' = [button EXCEPT ![row].copied = FALSE]
    /\ UNCHANGED <<coordinatePanel, hover, inline, due, coordinatePage, requests, settings, writes, clipboard, clicks>>

\* The map's own page: the picture, and the one line that says which text it
\* was drawn for.
MapPageShows(payload, status) ==
    [map |-> ViewFor(payload, status), written |-> VouchedText(payload.link, status)]

\* A page has no preferences: every row that applies is there.
PageShows(shell) ==
    LET payload == PayloadFor(shell)
        status == ConversionFrom(shell)
    IN  IF shell.mode = "map" THEN MapPageShows(payload, status)
        ELSE Readings(payload, status, {}, MapsFrom(shell))

\* A page opens on the document the server wrote.
OpenPage(shell) ==
    /\ coordinatePage = None
    /\ coordinatePage' = [shell |-> shell, shows |-> PageShows(shell)]
    /\ UNCHANGED <<coordinatePanel, hover, inline, due, requests, settings, copying, clicks>>

\* What a reader, an administrator, the server and the browser do, for the rows
\* that are copied and the items that are hidden.
Moves(rows, items) ==
    \/ \E link \in Links : Open(link) \/ PointAt(link) \/ ScrollNear(link)
    \/ Customize \/ Leave \/ Effects
    \/ \E link \in Links, status \in {"ready", "rejected", "failed"} : Reply(link, status)
    \/ \E id \in items : Hide(id)
    \/ \E surface \in MapSurfaces : SwitchMap(surface)
    \/ \E row \in rows : Copy(row) \/ AcknowledgmentEnds(row)
    \/ \E w \in writes, ok \in BOOLEAN : WriteSettles(w, ok)

LocationNext == Moves(Copyable, Offered) \/ \E shell \in Shells : OpenPage(shell)

LocationSpec == LocationInit /\ [][LocationNext]_location_vars

-----------------------------------------------------------------------------
\* "Copied" stands only under the text that was copied: not under that of the
\* next link, nor of the same row once its value has arrived or changed, but for
\* the frames until the button's effect.
CopiedIsTrue ==
    \A row \in Copyable : button[row].copied => Text(button[row].last) = Text(button[row].value) \/ Behind(row)

\* The panel, the card over the token and the map in the post put a link's
\* pin in one place, each by the link's own answer, and the server's place is
\* by an issued link's answer only.
Pins(shown) ==
    LET pin(surface, what) == IF what = None \/ "map" \notin DOMAIN what THEN {}
                              ELSE {[of |-> surface.link, by |-> surface.by, view |-> what.map] :
                                        x \in {TRUE} \cap {what.map # None}}
    IN  pin(coordinatePanel, shown) \cup pin(hover, HoverShows) \cup pin(inline, InlineShows)

OnePin(shown) ==
    LET pins == Pins(shown)
    IN  \A p, q \in pins :
        /\ p.of = q.of /\ p.by = p.of /\ q.by = q.of /\ p.view.known /\ q.view.known => p.view = q.view
        /\ p.view.at = "server" => p.by.issued

\* The answer on a surface is that of its own link, but on a panel that was
\* rendered for another link while the one before was being asked for: there it
\* may be that one's until its own is in, and no longer.
OwnAnswer(surface) == surface.by = surface.link
Unanswered(surface) == surface.fresh \/ surface.waits = surface.link

(* The author's own words and the server's readings are shown, and copied, *)
(* only on the server's word for an issued link, however its answers,      *)
(* outages, effects and the reader's clicks interleave; that word is for   *)
(* the link on the surface, but while a panel's own request is unanswered; *)
(* and once its verdict on a hand-made link is there, a surface shows      *)
(* nothing at all.  A surface that says it is looking has a request under  *)
(* way.  Surfaces agree on a link's place.  Nor does a value stay said to  *)
(* be copied that was not, however late the browser answers (convert.ts,   *)
(* LocationReadings.tsx, CopyButton.tsx).                                  *)
AuthorsTextIsVouched ==
    LET shown == PanelShows(coordinatePanel, hiddenRows, maps)
        copies == ({clipboard} \ {None}) \cup {w.value : w \in writes}
    IN  /\ CopiedIsTrue
        /\ OnePin(shown)
        /\ shown # None /\ IsReading(shown) =>
               \A row \in Rows : shown.rows[row] \in {"author", "server"} => coordinatePanel.by.issued
        /\ \A c \in copies : c.is \notin Placeholders /\ (c.is \in {"author", "server"} => c.by.issued)
        /\ \A s \in Mounted :
               /\ s.status = "ready" => s.by.issued
               /\ s.status = "loading" \/ ~OwnAnswer(s) => Unanswered(s)
               /\ s.waits # None => s.waits \in inflight
        /\ \A s \in {hover, inline} \ {None} : OwnAnswer(s)
        /\ coordinatePanel # None /\ coordinatePanel.status = "rejected" => shown \in {[refused |-> TRUE], [editor |-> TRUE]}

(* A page is never blank, nor poorer than what the server sent with it: a  *)
(* token or a format this build does not know is shown from the server's   *)
(* own readings, without a resolution or a cell it cannot vouch for        *)
(* (page/payload.ts).                                                      *)
PageShowsTheServersReadings ==
    coordinatePage # None =>
        LET link == coordinatePage.shell.link
            whole == coordinatePage.shell.conversion = "whole"
            local == FromParams(link) # None /\ ParseCanonical(link.token, 0) # None
        IN  IF coordinatePage.shell.mode = "map"
            THEN /\ coordinatePage.shows.map.known = (whole \/ local)
                 /\ whole /\ link.raw # "same" => coordinatePage.shows.written = "author"
            ELSE /\ "" \notin {coordinatePage.shows.rows["raw"], coordinatePage.shows.rows["datum"]}
                 /\ \A row \in Texts \cup Grids \cup Areas :
                        /\ coordinatePage.shows.rows[row] # ""
                        /\ coordinatePage.shows.rows[row] \in Placeholders =>
                              ~(whole /\ row \in Converted(link)) /\ ~(local /\ row \in Texts)
                 /\ link.token.format \notin LocalFormats \cup RemoteFormats =>
                        coordinatePage.shows.rows["resolution"] = ""
=============================================================================
