---------------------------- MODULE SurfaceProofs ----------------------------
(***************************************************************************)
(* Proofs about three kinds of surface, which share nothing.               *)
(*                                                                         *)
(* LocationReadings, for any links, any documents of a page and any number *)
(* of clicks and settings: the author's own text and the server's readings *)
(* are shown and copied by an issued link's answer only, which is the      *)
(* link's own but while the panel's request is unanswered, and "Copied"    *)
(* stands only under what was copied (AuthorsTextIsVouched); and a page    *)
(* shows all that the server sent (PageShowsTheServersReadings).  Neither  *)
(* a copy nor its acknowledgment can be judged by the state it ends in:    *)
(* the value was taken from a rendering that may be gone.  The invariant   *)
(* says of every value under way that it was sound when it was taken       *)
(* (Sound), of a live write that its button has not moved on, or will not  *)
(* before its effect (CopiesAreSound), of every surface whose answer it    *)
(* shows and what it waits for (SurfacesWait), and of a button whose       *)
(* effect has run that it is up with its text (ButtonsAreEven).            *)
(*                                                                         *)
(* DocumentSurfaces, for any posts, airports, limits and formatters: the   *)
(* page a card's link opens draws the card (PageDrawsTheCard), though the  *)
(* server answers it from the stored post, which knows less than the props *)
(* the card was read from; and what the card states its panel carries      *)
(* (PanelCarriesTheCard), whatever was published since.  The invariant     *)
(* says of a link that it was taken from a card that had a map, or from    *)
(* the panel such a card opened, whatever became of the post's text and    *)
(* props since (PanelIsOfACard, LinkIsOfACard).                            *)
(*                                                                         *)
(* MapPicture, for any packages, documents and movements of the camera:    *)
(* where the detail packages reach the view nothing is drawn twice, and    *)
(* elsewhere nothing is left out (SeamIsWhole).  The reach is decided when *)
(* the camera comes to rest and drawn at every zoom: the invariant says    *)
(* that it is then the decision for the box in view (PictureInv).  A link  *)
(* to where the reader was looking reads back, from any camera, and the    *)
(* padding of a fit leaves half of any canvas.                             *)
(***************************************************************************)
EXTENDS MapPicture, DocumentSurfaces, LocationReadings, TLAPS

-----------------------------------------------------------------------------
\* The readings of a coordinate.
ReadingWords == {"token", "author", "local", "server", "fixed"}
Value == [is : ReadingWords, of : Links, by : Links, row : Copyable]
TextRec == [is : ReadingWords, of : Links, row : Copyable]
Statuses == {"loading", "ready", "rejected", "failed"}
Readable == {l \in Links : FromParams(l) # None}

PanelRec == [link : Readable, status : Statuses, by : Links, fresh : BOOLEAN, waits : {None} \cup Links,
             editing : BOOLEAN]
SurfaceRec == [link : Readable, status : Statuses, by : Links, fresh : BOOLEAN, waits : {None} \cup Links]
ButtonRec == [value : {None} \cup Value, seen : {None} \cup TextRec, copied : BOOLEAN, last : {None} \cup Value]

ReadingsTypeOK ==
    /\ coordinatePanel \in {None} \cup PanelRec
    /\ hover \in {None} \cup SurfaceRec
    /\ inline \in {None} \cup SurfaceRec
    /\ answers \in [Links -> {"loading", "ready", "rejected"}]
    /\ inflight \subseteq Links /\ due \in BOOLEAN
    /\ button \in [Copyable -> ButtonRec]
    /\ writes \subseteq [value : Value, live : BOOLEAN]
    /\ clipboard \in {None} \cup Value

\* The verdict that is kept is the server's.
VerdictsAreTrue == \A l \in Links : answers[l] = "ready" => l.issued

\* A surface has a verdict, its own but while its own is asked for, and waits
\* for requests under way; the effect of a link that is gone waits only until
\* the next one runs.
Waits(surface, requests_) ==
    surface # None =>
        /\ surface.status = "ready" => surface.by.issued
        /\ surface.status = "loading" \/ surface.by # surface.link => surface.fresh \/ surface.waits = surface.link
        /\ surface.waits \notin {None, surface.link} => surface.fresh
        /\ surface.waits # None => surface.waits \in requests_

\* A surface that is mounted anew for every link has no other's answer.
ItsOwn(surface) == surface # None => surface.by = surface.link /\ surface.waits \in {None, surface.link}

SurfacesWait ==
    /\ Waits(coordinatePanel, inflight) /\ Waits(hover, inflight) /\ Waits(inline, inflight)
    /\ ItsOwn(hover) /\ ItsOwn(inline)

\* What may be copied: the author's words and the server's by an issued link.
Sound(value) == value.is \in {"author", "server"} => value.by.issued

CopiesAreSound ==
    /\ \A row \in Copyable : button[row].value # None => Sound(button[row].value) /\ button[row].value.row = row
    /\ \A w \in writes :
           /\ Sound(w.value)
           /\ w.live => Text(w.value) \in {button[w.value.row].seen, Text(button[w.value.row].value)}
    /\ clipboard # None => Sound(clipboard)

\* No button is behind its text once the effects have run.
ButtonsAreEven == ~due => ~SomeBehind

PageIsOfItsShell == coordinatePage # None => coordinatePage.shows = PageShows(coordinatePage.shell)

ReadingsInv ==
    /\ ReadingsTypeOK
    /\ VerdictsAreTrue
    /\ SurfacesWait
    /\ CopiesAreSound
    /\ CopiedIsTrue
    /\ ButtonsAreEven
    /\ PageIsOfItsShell

-----------------------------------------------------------------------------
(* What a link's parameters were read from is kept with them.              *)
LEMMA PayloadIsOfItsLink ==
    ASSUME NEW l, FromParams(l) # None
    PROVE  FromParams(l).link = l /\ FromParams(l).coord = ParseCanonical(l.token, 0)
  BY DEF FromParams

(* The value of a row is one of a few, and only on the server's word is it *)
(* the author's or the server's.                                           *)
LEMMA ValueOfARow ==
    ASSUME NEW payload, NEW status \in Statuses, NEW row \in Rows
    PROVE  /\ Values(payload, status)[row] \in ReadingWords \cup Placeholders \cup {""}
           /\ Values(payload, status)[row] \in {"author", "server"} => status = "ready"
  <1>1. /\ Remote(row, payload.link, status) \in {"server", "pending", "unavailable"}
        /\ Remote(row, payload.link, status) = "server" => status = "ready"
    BY DEF Remote
  <1>2. /\ VouchedText(payload.link, status) \in {"author", "token"}
        /\ VouchedText(payload.link, status) = "author" => status = "ready"
    BY DEF VouchedText
  <1>3. /\ GridRow(payload, row, status) \in {"token", Remote(row, payload.link, status)}
        /\ AreaRow(payload, row, status) \in {"token", Remote(row, payload.link, status)}
    BY DEF GridRow, AreaRow
  <1>4. CASE row \in {"raw", "canonical", "datum", "confidence", "resolution"}
    <2>1. row \notin Texts \cup Grids \cup Areas
      BY <1>4 DEF Texts, Grids, Areas
    <2>2. CASE row = "raw"
      <3>1. Values(payload, status)[row] = VouchedText(payload.link, status)
        BY <2>1, <2>2 DEF Values
      <3> QED BY <1>2, <3>1 DEF ReadingWords
    <2>3. CASE row = "canonical"
      <3>1. Values(payload, status)[row] \in {"token", ""}
        BY <2>1, <2>3 DEF Values
      <3> QED BY <3>1 DEF ReadingWords
    <2>4. CASE row \in {"datum", "confidence", "resolution"}
      <3>1. Values(payload, status)[row] \in {"fixed", "local", "token", ""}
        BY <2>1, <2>4 DEF Values
      <3> QED BY <3>1 DEF ReadingWords
    <2> QED BY <1>4, <2>2, <2>3, <2>4
  <1>5. CASE row \in Texts
    <2>1. row \notin {"raw", "canonical", "datum", "confidence", "resolution"} \cup Grids \cup Areas
      BY <1>5 DEF Texts, Grids, Areas
    <2>2. Values(payload, status)[row] = IF payload.coord # None THEN "local" ELSE Remote(row, payload.link, status)
      BY <1>5, <2>1 DEF Values
    <2> QED BY <1>1, <2>2 DEF ReadingWords, Placeholders
  <1>6. CASE row \in Grids
    <2>1. row \notin {"raw", "canonical", "datum", "confidence", "resolution"} \cup Texts \cup Areas
      BY <1>6 DEF Texts, Grids, Areas
    <2>2. Values(payload, status)[row] = GridRow(payload, row, status)
      BY <1>6, <2>1 DEF Values
    <2> QED BY <1>1, <1>3, <2>2 DEF ReadingWords, Placeholders
  <1>7. CASE row \in Areas
    <2>1. row \notin {"raw", "canonical", "datum", "confidence", "resolution"} \cup Texts \cup Grids
      BY <1>7 DEF Texts, Grids, Areas
    <2>2. Values(payload, status)[row] = AreaRow(payload, row, status)
      BY <1>7, <2>1 DEF Values
    <2> QED BY <1>1, <1>3, <2>2 DEF ReadingWords, Placeholders
  <1> QED BY <1>4, <1>5, <1>6, <1>7 DEF Rows

(* What the panel shows: an editor, a refusal, or the rows of its link.    *)
LEMMA PanelForms ==
    ASSUME NEW p \in PanelRec, p # None, NEW notShown, NEW on
    PROVE  LET shown == PanelShows(p, notShown, on)
           IN  /\ p.status = "rejected" => shown \in {[refused |-> TRUE], [editor |-> TRUE]}
               /\ IsReading(shown) =>
                      /\ p.status # "rejected"
                      /\ \A row \in Rows : \/ shown.rows[row] = ""
                                           \/ shown.rows[row] = Values(FromParams(p.link), p.status)[row]
  <1>1. CASE p.editing
    BY <1>1 DEF PanelShows, IsReading
  <1>2. CASE ~p.editing /\ p.status = "rejected"
    BY <1>2 DEF PanelShows, Readings, IsReading
  <1>3. CASE ~p.editing /\ p.status # "rejected"
    <2> DEFINE payload == FromParams(p.link)
    <2>1. PanelShows(p, notShown, on) = Readings(payload, p.status, notShown, on)
      BY <1>3 DEF PanelShows
    <2>2. Readings(payload, p.status, notShown, on).rows =
              [row \in Rows |-> IF row \in notShown THEN "" ELSE Values(payload, p.status)[row]]
      BY <1>3 DEF Readings
    <2> QED BY <1>3, <2>1, <2>2
  <1> QED BY <1>1, <1>2, <1>3

(* No row of a panel has more than the server has vouched for.             *)
LEMMA PanelIsSound ==
    ASSUME NEW p \in PanelRec, p # None, NEW notShown, NEW on, NEW row \in Rows,
           p.status = "ready" => p.by.issued,
           IsReading(PanelShows(p, notShown, on))
    PROVE  LET shown == PanelShows(p, notShown, on)
           IN  /\ shown.rows[row] \in ReadingWords \cup Placeholders \cup {""}
               /\ shown.rows[row] \in {"author", "server"} => p.by.issued
  <1> DEFINE shown == PanelShows(p, notShown, on)
             value == Values(FromParams(p.link), p.status)[row]
  <1>1. p.status \in Statuses
    BY DEF PanelRec
  <1>2. shown.rows[row] \in {"", value}
    BY PanelForms
  <1>3. value \in ReadingWords \cup Placeholders \cup {""} /\ (value \in {"author", "server"} => p.status = "ready")
    BY <1>1, ValueOfARow
  <1> HIDE DEF shown, value
  <1> QED BY <1>2, <1>3 DEF shown

(* Nor has its copy button.                                                *)
LEMMA CopyValueIsSound ==
    ASSUME NEW p \in PanelRec, p # None, NEW notShown, NEW on, NEW row \in Copyable,
           p.status = "ready" => p.by.issued
    PROVE  LET value == CopyValue(PanelShows(p, notShown, on), p, row)
           IN  \/ value = None
               \/ value \in Value /\ Sound(value) /\ value.row = row
  <1> DEFINE shown == PanelShows(p, notShown, on)
  <1>1. p.link \in Links /\ p.by \in Links /\ row \in Rows
    BY DEF PanelRec, Readable, Copyable
  <1>2. CASE ~IsReading(shown) \/ shown.rows[row] \in Placeholders \cup {""}
    BY <1>2 DEF CopyValue
  <1>3. CASE IsReading(shown) /\ shown.rows[row] \notin Placeholders \cup {""}
    <2>1. shown.rows[row] \in ReadingWords /\ (shown.rows[row] \in {"author", "server"} => p.by.issued)
      BY <1>1, <1>3, PanelIsSound
    <2>2. PICK of \in Links : CopyValue(shown, p, row) = [is |-> shown.rows[row], of |-> of, by |-> p.by, row |-> row]
      BY <1>1, <1>3 DEF CopyValue
    <2> DEFINE value == CopyValue(shown, p, row)
               word == shown.rows[row]
    <2> HIDE DEF shown, value, word
    <2>3. value = [is |-> word, of |-> of, by |-> p.by, row |-> row]
      BY <2>2 DEF value, word
    <2>4. value.is = word /\ value.by = p.by /\ value.row = row
      BY <2>3
    <2>5. word \in ReadingWords /\ (word \in {"author", "server"} => p.by.issued)
      BY <2>1 DEF word
    <2>6. value \in Value
      BY <1>1, <2>3, <2>5 DEF Value
    <2>7. Sound(value)
      BY <2>4, <2>5 DEF Sound
    <2> QED BY <2>4, <2>6, <2>7 DEF value, shown
  <1> QED BY <1>2, <1>3

-----------------------------------------------------------------------------
(* A value is told from none, and so is its text.                          *)
LEMMA TextOfAValue ==
    ASSUME NEW v \in Value
    PROVE  v # None /\ Text(v) = [is |-> v.is, of |-> v.of, row |-> v.row] /\ Text(v) \in TextRec /\ Text(v) # None
  <1>1. DOMAIN None = {"none"}
    BY DEF None
  <1>2. DOMAIN v = {"is", "of", "by", "row"}
    BY DEF Value
  <1>3. v # None
    BY <1>1, <1>2
  <1>4. Text(v) = [is |-> v.is, of |-> v.of, row |-> v.row]
    BY <1>3 DEF Text
  <1>5. DOMAIN Text(v) = {"is", "of", "row"}
    BY <1>4
  <1> QED BY <1>1, <1>3, <1>4, <1>5 DEF Value, TextRec

\* A button whose effect has run.
Even(b) == b.seen = Text(b.value) /\ (b.copied => Text(b.last) = Text(b.value))

(* The effect of a button leaves it up with its text.                      *)
LEMMA SettledIsEven ==
    ASSUME ReadingsTypeOK, CopiedIsTrue, NEW row \in Copyable
    PROVE  /\ Settled(button[row]) \in ButtonRec /\ Even(Settled(button[row]))
           /\ Settled(button[row]).value = button[row].value
  <1> DEFINE b == button[row]
  <1>1. b \in ButtonRec /\ (b.copied => Text(b.last) = Text(b.value) \/ b.seen # Text(b.value))
    BY DEF ReadingsTypeOK, CopiedIsTrue, Behind
  <1>2. Text(b.value) \in {None} \cup TextRec
    BY <1>1, TextOfAValue DEF ButtonRec, Text
  <1> HIDE DEF b
  <1>3. CASE b.seen = Text(b.value)
    <2>1. Settled(b) = b
      BY <1>3 DEF Settled
    <2>2. Even(b)
      BY <1>1, <1>3, Zenon DEF Even
    <2> QED BY <1>1, <2>1, <2>2 DEF b
  <1>4. CASE b.seen # Text(b.value)
    <2>1. Settled(b) = [b EXCEPT !.copied = FALSE, !.seen = Text(b.value)]
      BY <1>4 DEF Settled
    <2> DEFINE t == Text(b.value)
    <2>2. /\ [b EXCEPT !.copied = FALSE, !.seen = t] \in ButtonRec
          /\ [b EXCEPT !.copied = FALSE, !.seen = t].seen = t
          /\ [b EXCEPT !.copied = FALSE, !.seen = t].value = b.value
          /\ [b EXCEPT !.copied = FALSE, !.seen = t].copied = FALSE
      <3> HIDE DEF t
      <3> DEFINE c == [b EXCEPT !.copied = FALSE, !.seen = t]
      <3>1. t \in {None} \cup TextRec
        BY <1>2 DEF t
      <3>2. c = [f \in DOMAIN b |-> IF f = "copied" THEN FALSE ELSE IF f = "seen" THEN t ELSE b[f]]
        OBVIOUS
      <3>3. DOMAIN b = {"value", "seen", "copied", "last"}
        BY <1>1 DEF ButtonRec
      <3> HIDE DEF c
      <3>4. c = [value |-> b.value, seen |-> t, copied |-> FALSE, last |-> b.last]
        BY <3>2, <3>3
      <3>5. c \in ButtonRec
        BY <1>1, <3>1, <3>4 DEF ButtonRec
      <3> QED BY <3>4, <3>5 DEF c
    <2> QED BY <2>1, <2>2 DEF Even, b
  <1> QED BY <1>3, <1>4 DEF b

(* Whatever the panel is drawn as next, each button has a value of that    *)
(* drawing, and its acknowledgment is of the text it was up with.          *)
LEMMA DrawingKeeps ==
    ASSUME NEW buttons \in [Copyable -> ButtonRec], \A row \in Copyable : Even(buttons[row]),
           NEW p \in {None} \cup PanelRec, p # None /\ p.status = "ready" => p.by.issued,
           NEW notShown, NEW on, DrawButtons(buttons, p, notShown, on)
    PROVE  /\ button' \in [Copyable -> ButtonRec]
           /\ CopiedIsTrue'
           /\ \A row \in Copyable :
                  /\ button'[row].seen = buttons[row].seen
                  /\ button'[row].value # None => Sound(button'[row].value) /\ button'[row].value.row = row
  <1> DEFINE value(row) == IF p = None THEN None ELSE CopyValue(PanelShows(p, notShown, on), p, row)
  <1>1. ASSUME NEW row \in Copyable
        PROVE  value(row) = None \/ (value(row) \in Value /\ Sound(value(row)) /\ value(row).row = row)
    <2>1. CASE p = None
      BY <2>1
    <2>2. CASE p # None
      BY <2>2, CopyValueIsSound
    <2> QED BY <2>1, <2>2
  <1>2. button' = [row \in Copyable |-> DrawnButton(buttons[row], value(row))]
    BY DEF DrawButtons
  <1> HIDE DEF value
  <1>3. ASSUME NEW row \in Copyable
        PROVE  /\ button'[row] \in ButtonRec
               /\ button'[row].value = value(row) /\ button'[row].seen = buttons[row].seen
               /\ button'[row].copied =>
                      Text(button'[row].last) = Text(button'[row].value) \/ button'[row].seen # Text(button'[row].value)
    <2> DEFINE b == buttons[row]
    <2>1. button'[row] = [b EXCEPT !.value = value(row), !.copied = @ /\ value(row) # None]
      BY <1>2 DEF DrawnButton
    <2>2. b \in ButtonRec /\ Even(b) /\ value(row) \in {None} \cup Value
      BY <1>1
    <2> HIDE DEF b
    <2>3. /\ button'[row] \in ButtonRec
          /\ button'[row].value = value(row) /\ button'[row].seen = b.seen /\ button'[row].last = b.last
          /\ button'[row].copied => b.copied
      BY <2>1, <2>2 DEF ButtonRec
    <2> QED BY <2>2, <2>3 DEF Even, b
  <1>4. button' \in [Copyable -> ButtonRec]
    BY <1>2, <1>3
  <1>5. CopiedIsTrue'
    BY <1>3 DEF CopiedIsTrue, Behind
  <1> QED BY <1>1, <1>3, <1>4, <1>5

(* A step that draws the panel again keeps the invariant when it keeps the *)
(* rest of it: the surfaces, the verdicts and the page.                    *)
LEMMA DrawnAgain ==
    ASSUME ReadingsInv, ~due, NEW notShown, NEW on, DrawButtons(button, coordinatePanel', notShown, on),
           writes' = writes, clipboard' = clipboard, due' = TRUE \/ due' = SomeBehind',
           coordinatePanel' \in {None} \cup PanelRec,
           hover' \in {None} \cup SurfaceRec, inline' \in {None} \cup SurfaceRec,
           answers' \in [Links -> {"loading", "ready", "rejected"}], inflight' \subseteq Links,
           VerdictsAreTrue', SurfacesWait', PageIsOfItsShell'
    PROVE  ReadingsInv'
  <1>1. coordinatePanel' # None /\ coordinatePanel'.status = "ready" => coordinatePanel'.by.issued
    BY DEF SurfacesWait, Waits
  <1>2. button \in [Copyable -> ButtonRec] /\ \A row \in Copyable : Even(button[row])
    BY DEF ReadingsInv, ReadingsTypeOK, ButtonsAreEven, SomeBehind, Behind, CopiedIsTrue, Even
  <1>3. /\ button' \in [Copyable -> ButtonRec]
        /\ CopiedIsTrue'
        /\ \A row \in Copyable :
               /\ button'[row].seen = button[row].seen
               /\ button'[row].value # None => Sound(button'[row].value) /\ button'[row].value.row = row
    BY <1>1, <1>2, DrawingKeeps
  <1>4. ASSUME NEW w \in writes, w.live
        PROVE  Text(w.value) = button'[w.value.row].seen
    <2>1. w.value.row \in Copyable
      BY DEF ReadingsInv, ReadingsTypeOK, Value
    <2> QED BY <1>2, <1>3, <1>4, <2>1 DEF ReadingsInv, CopiesAreSound, Even
  <1>5. CopiesAreSound'
    BY <1>3, <1>4 DEF ReadingsInv, CopiesAreSound, Sound
  <1>6. due' \in BOOLEAN /\ ButtonsAreEven'
    BY DEF ButtonsAreEven, SomeBehind
  <1> QED BY <1>3, <1>5, <1>6 DEF ReadingsInv, ReadingsTypeOK

-----------------------------------------------------------------------------
(* A surface opens on what is known of its link; its effect does the rest. *)
LEMMA OpenedWaits ==
    ASSUME ReadingsInv, NEW l \in Links, FromParams(l) # None
    PROVE  /\ Opened(l) \in SurfaceRec /\ Waits(Opened(l), inflight) /\ ItsOwn(Opened(l))
           /\ \A editing \in BOOLEAN, waits \in {None} \cup inflight :
                  LET opened == [link |-> l, status |-> answers[l], by |-> l, fresh |-> TRUE,
                                 waits |-> waits, editing |-> editing]
                  IN  opened \in PanelRec /\ Waits(opened, inflight)
  <1>1. answers[l] \in Statuses /\ (answers[l] = "ready" => l.issued) /\ inflight \subseteq Links
    BY DEF ReadingsInv, ReadingsTypeOK, VerdictsAreTrue, Statuses
  <1>2. l \in Readable
    BY DEF Readable
  <1> QED BY <1>1, <1>2 DEF Opened, Waits, ItsOwn, SurfaceRec, PanelRec

(* An effect leaves a surface with its own link's answer or waiting for    *)
(* it, among more requests than before.                                    *)
LEMMA FlushedWaits ==
    ASSUME ReadingsInv, NEW Rec \in {PanelRec, SurfaceRec}, NEW surface \in {None} \cup Rec,
           NEW many, inflight \subseteq many, Waits(surface, inflight),
           surface # None /\ surface.fresh /\ answers[surface.link] = "loading" => surface.link \in many
    PROVE  /\ Flushed(surface) \in {None} \cup Rec
           /\ Waits(Flushed(surface), many)
           /\ ItsOwn(surface) => ItsOwn(Flushed(surface))
  <1>1. CASE surface = None
    BY <1>1 DEF Flushed, Waits, ItsOwn
  <1>2. CASE surface # None /\ ~surface.fresh
    BY <1>2 DEF Flushed, Waits
  <1>3. CASE surface # None /\ surface.fresh /\ answers[surface.link] = "loading"
    <2>1. Flushed(surface) = [surface EXCEPT !.fresh = FALSE, !.waits = surface.link]
      BY <1>3 DEF Flushed
    <2>2. surface \in Rec /\ surface.link \in Links
      BY <1>3 DEF PanelRec, SurfaceRec, Readable
    <2> DEFINE asked == [surface EXCEPT !.fresh = FALSE, !.waits = surface.link]
    <2>3. /\ asked \in Rec /\ asked.link = surface.link /\ asked.status = surface.status
          /\ asked.by = surface.by /\ asked.waits = surface.link
      <3>1. asked = [f \in DOMAIN surface |-> IF f = "fresh" THEN FALSE
                                              ELSE IF f = "waits" THEN surface.link ELSE surface[f]]
        OBVIOUS
      <3> HIDE DEF asked
      <3>2. CASE Rec = PanelRec
        <4>1. asked = [link |-> surface.link, status |-> surface.status, by |-> surface.by, fresh |-> FALSE,
                       waits |-> surface.link, editing |-> surface.editing]
          BY <2>2, <3>1, <3>2 DEF PanelRec
        <4> QED BY <2>2, <3>2, <4>1 DEF PanelRec
      <3>3. CASE Rec = SurfaceRec
        <4>1. asked = [link |-> surface.link, status |-> surface.status, by |-> surface.by, fresh |-> FALSE,
                       waits |-> surface.link]
          BY <2>2, <3>1, <3>3 DEF SurfaceRec
        <4> QED BY <2>2, <3>3, <4>1 DEF SurfaceRec
      <3> QED BY <3>2, <3>3
    <2> HIDE DEF asked
    <2>4. Flushed(surface) = asked
      BY <2>1 DEF asked
    <2> QED BY <1>3, <2>3, <2>4 DEF Waits, ItsOwn
  <1>4. CASE surface # None /\ surface.fresh /\ answers[surface.link] # "loading"
    <2>1. Flushed(surface) = [surface EXCEPT !.status = answers[surface.link], !.by = surface.link,
                                             !.fresh = FALSE, !.waits = None]
      BY <1>4 DEF Flushed
    <2>2. surface \in Rec /\ surface.link \in Links
      BY <1>4 DEF PanelRec, SurfaceRec, Readable
    <2>3. answers[surface.link] \in Statuses /\ (answers[surface.link] = "ready" => surface.link.issued)
      BY <2>2 DEF ReadingsInv, ReadingsTypeOK, VerdictsAreTrue, Statuses
    <2> DEFINE status == answers[surface.link]
               adopted == [surface EXCEPT !.status = status, !.by = surface.link, !.fresh = FALSE, !.waits = None]
    <2> HIDE DEF status
    <2>4. /\ adopted \in Rec /\ adopted.link = surface.link /\ adopted.status = status
          /\ adopted.by = surface.link /\ adopted.waits = None
      <3>1. adopted = [f \in DOMAIN surface |-> IF f = "status" THEN status ELSE IF f = "by" THEN surface.link
                                                ELSE IF f = "fresh" THEN FALSE ELSE IF f = "waits" THEN None
                                                ELSE surface[f]]
        OBVIOUS
      <3>2. status \in Statuses
        BY <2>3 DEF status
      <3> HIDE DEF adopted
      <3>3. CASE Rec = PanelRec
        <4>1. adopted = [link |-> surface.link, status |-> status, by |-> surface.link, fresh |-> FALSE,
                         waits |-> None, editing |-> surface.editing]
          BY <2>2, <3>1, <3>3 DEF PanelRec
        <4> QED BY <2>2, <3>2, <3>3, <4>1 DEF PanelRec
      <3>4. CASE Rec = SurfaceRec
        <4>1. adopted = [link |-> surface.link, status |-> status, by |-> surface.link, fresh |-> FALSE, waits |-> None]
          BY <2>2, <3>1, <3>4 DEF SurfaceRec
        <4> QED BY <2>2, <3>2, <3>4, <4>1 DEF SurfaceRec
      <3> QED BY <3>3, <3>4
    <2> HIDE DEF adopted
    <2>5. Flushed(surface) = adopted
      BY <2>1 DEF adopted, status
    <2> QED BY <1>4, <2>3, <2>4, <2>5 DEF Waits, ItsOwn, status
  <1> QED BY <1>1, <1>2, <1>3, <1>4

(* An answer ends the wait of every surface that waits for it, and no      *)
(* other.                                                                  *)
LEMMA TakenWaits ==
    ASSUME NEW Rec \in {PanelRec, SurfaceRec}, NEW surface \in {None} \cup Rec, NEW l \in Links,
           NEW status \in {"ready", "rejected", "failed"}, status = "ready" => l.issued,
           NEW requests_, Waits(surface, requests_)
    PROVE  /\ Taken(surface, l, status) \in {None} \cup Rec
           /\ Waits(Taken(surface, l, status), requests_ \ {l})
           /\ ItsOwn(surface) => ItsOwn(Taken(surface, l, status))
  <1>0. l # None
    BY LinkAssumption
  <1>1. CASE surface = None
    BY <1>1 DEF Taken, Waits, ItsOwn
  <1>2. CASE surface # None /\ surface.waits # l
    BY <1>2 DEF Taken, Waits
  <1>3. CASE surface # None /\ surface.waits = l
    <2> DEFINE taken == [surface EXCEPT !.status = status, !.by = l, !.waits = None]
    <2>1. Taken(surface, l, status) = taken
      BY <1>3 DEF Taken
    <2>2. /\ taken \in Rec /\ taken.link = surface.link /\ taken.status = status
          /\ taken.by = l /\ taken.waits = None /\ taken.fresh = surface.fresh
      BY <1>3 DEF PanelRec, SurfaceRec, Statuses
    <2> HIDE DEF taken
    <2> QED BY <1>0, <1>3, <2>1, <2>2 DEF Waits, ItsOwn
  <1> QED BY <1>1, <1>2, <1>3

-----------------------------------------------------------------------------
(* The effects of a render, and the render after them.                     *)
LEMMA EffectsKeep ==
    ASSUME ReadingsInv, Effects
    PROVE  ReadingsInv'
  <1> DEFINE settled == [row \in Copyable |-> Settled(button[row])]
  <1>1. /\ coordinatePanel' = Flushed(coordinatePanel) /\ hover' = Flushed(hover) /\ inline' = Flushed(inline)
        /\ inflight' = inflight \cup {s.link : s \in {m \in Mounted : m.fresh /\ answers[m.link] = "loading"}}
        /\ DrawButtons(settled, coordinatePanel', hiddenRows, maps)
        /\ writes' = {[w EXCEPT !.live = @ /\ SameGeneration(w.value.row)] : w \in writes}
        /\ due' = SomeBehind' /\ UNCHANGED <<answers, clipboard, coordinatePage>>
    BY DEF Effects
  <1>2. /\ inflight \subseteq inflight' /\ inflight' \subseteq Links
        /\ \A s \in {coordinatePanel, hover, inline} :
               s # None /\ s.fresh /\ answers[s.link] = "loading" => s.link \in inflight'
    BY <1>1 DEF Mounted, ReadingsInv, ReadingsTypeOK, PanelRec, SurfaceRec, Readable
  <1>3. /\ coordinatePanel' \in {None} \cup PanelRec /\ Waits(coordinatePanel', inflight')
        /\ hover' \in {None} \cup SurfaceRec /\ Waits(hover', inflight') /\ ItsOwn(hover')
        /\ inline' \in {None} \cup SurfaceRec /\ Waits(inline', inflight') /\ ItsOwn(inline')
    BY <1>1, <1>2, FlushedWaits DEF ReadingsInv, ReadingsTypeOK, SurfacesWait
  <1>4. coordinatePanel' # None /\ coordinatePanel'.status = "ready" => coordinatePanel'.by.issued
    BY <1>3 DEF Waits
  <1>5. settled \in [Copyable -> ButtonRec] /\ \A row \in Copyable : Even(settled[row])
    BY SettledIsEven DEF ReadingsInv
  <1>6. /\ button' \in [Copyable -> ButtonRec] /\ CopiedIsTrue'
        /\ \A row \in Copyable :
               /\ button'[row].seen = Text(button[row].value)
               /\ button'[row].value # None => Sound(button'[row].value) /\ button'[row].value.row = row
    <2>1. /\ button' \in [Copyable -> ButtonRec] /\ CopiedIsTrue'
          /\ \A row \in Copyable :
                 /\ button'[row].seen = settled[row].seen
                 /\ button'[row].value # None => Sound(button'[row].value) /\ button'[row].value.row = row
      <3> HIDE DEF settled
      <3> QED BY <1>1, <1>3, <1>4, <1>5, DrawingKeeps
    <2>2. \A row \in Copyable : settled[row].seen = Text(button[row].value)
      BY SettledIsEven DEF Even, ReadingsInv
    <2> QED BY <2>1, <2>2
  <1>7. ASSUME NEW v \in writes'
        PROVE  /\ v \in [value : Value, live : BOOLEAN] /\ Sound(v.value)
               /\ v.live => Text(v.value) = button'[v.value.row].seen
    <2>1. PICK w \in writes : v = [w EXCEPT !.live = @ /\ SameGeneration(w.value.row)]
      BY <1>1
    <2> DEFINE row == w.value.row
    <2>2. /\ w \in [value : Value, live : BOOLEAN] /\ Sound(w.value) /\ row \in Copyable
          /\ w.live => Text(w.value) \in {button[row].seen, Text(button[row].value)}
      BY DEF ReadingsInv, ReadingsTypeOK, CopiesAreSound, Value
    <2>3. v.value = w.value /\ v.live = (w.live /\ SameGeneration(row))
      BY <2>1, <2>2
    <2>4. v \in [value : Value, live : BOOLEAN]
      BY <2>1, <2>2 DEF SameGeneration, Behind
    <2>5. ASSUME v.live PROVE Text(v.value) = button'[v.value.row].seen
      <3>1. button[row].seen # None => button[row].seen = Text(button[row].value)
        BY <2>3, <2>5 DEF SameGeneration, Behind
      <3>2. Text(w.value) # None
        BY <2>2, TextOfAValue
      <3>3. Text(w.value) = Text(button[row].value)
        BY <2>2, <2>3, <2>5, <3>1, <3>2
      <3> QED BY <1>6, <2>2, <2>3, <3>3
    <2> QED BY <2>2, <2>3, <2>4, <2>5
  <1>8. CopiesAreSound'
    BY <1>1, <1>6, <1>7 DEF ReadingsInv, CopiesAreSound, Sound
  <1>9. due' \in BOOLEAN /\ ButtonsAreEven' /\ VerdictsAreTrue' /\ PageIsOfItsShell'
    BY <1>1 DEF ButtonsAreEven, SomeBehind, ReadingsInv, VerdictsAreTrue, PageIsOfItsShell
  <1> QED BY <1>1, <1>2, <1>3, <1>6, <1>7, <1>8, <1>9 DEF ReadingsInv, ReadingsTypeOK, SurfacesWait

(* A click opens the panel on its link; its old effect waits on.           *)
LEMMA OpenKeeps ==
    ASSUME ReadingsInv, NEW l \in Links, Open(l)
    PROVE  ReadingsInv'
  <1>1. /\ FromParams(l) # None /\ ~due /\ due' = TRUE
        /\ DrawButtons(button, coordinatePanel', hiddenRows, maps)
        /\ UNCHANGED <<hover, inline, coordinatePage, answers, inflight, writes, clipboard>>
    BY DEF Open, requests
  <1>2. PICK editing \in BOOLEAN, waits \in {None} \cup inflight :
            coordinatePanel' = [link |-> l, status |-> answers[l], by |-> l, fresh |-> TRUE,
                                waits |-> waits, editing |-> editing]
    BY DEF Open, ReadingsInv, ReadingsTypeOK, PanelRec, SurfacesWait, Waits
  <1>3. coordinatePanel' \in PanelRec /\ Waits(coordinatePanel', inflight)
    BY <1>1, <1>2, OpenedWaits
  <1>4. SurfacesWait' /\ VerdictsAreTrue' /\ PageIsOfItsShell'
    BY <1>1, <1>3 DEF ReadingsInv, SurfacesWait, VerdictsAreTrue, PageIsOfItsShell
  <1> QED BY <1>1, <1>3, <1>4, DrawnAgain DEF ReadingsInv, ReadingsTypeOK

(* The editor and its way back draw the same link.                         *)
LEMMA CustomizeKeeps ==
    ASSUME ReadingsInv, Customize
    PROVE  ReadingsInv'
  <1>1. /\ ~due /\ coordinatePanel # None /\ coordinatePanel' = [coordinatePanel EXCEPT !.editing = ~@]
        /\ DrawButtons(button, coordinatePanel', hiddenRows, maps) /\ due' = SomeBehind'
        /\ UNCHANGED <<hover, inline, coordinatePage, answers, inflight, writes, clipboard>>
    BY DEF Customize, Rerender, requests
  <1>2. /\ coordinatePanel' \in PanelRec
        /\ coordinatePanel'.link = coordinatePanel.link /\ coordinatePanel'.status = coordinatePanel.status
        /\ coordinatePanel'.by = coordinatePanel.by /\ coordinatePanel'.fresh = coordinatePanel.fresh
        /\ coordinatePanel'.waits = coordinatePanel.waits
    BY <1>1 DEF ReadingsInv, ReadingsTypeOK, PanelRec
  <1>3. SurfacesWait' /\ VerdictsAreTrue' /\ PageIsOfItsShell'
    BY <1>1, <1>2 DEF ReadingsInv, SurfacesWait, Waits, VerdictsAreTrue, PageIsOfItsShell
  <1> QED BY <1>1, <1>2, <1>3, DrawnAgain DEF ReadingsInv, ReadingsTypeOK

(* What no copy and no drawing of the panel is about.                      *)
LEMMA CopyingStays ==
    ASSUME CopiesAreSound, CopiedIsTrue, ButtonsAreEven, UNCHANGED copying, due' = due \/ due' = TRUE
    PROVE  CopiesAreSound' /\ CopiedIsTrue' /\ ButtonsAreEven'
  BY DEF copying, CopiesAreSound, CopiedIsTrue, ButtonsAreEven, SomeBehind, Behind

(* A hover opens on its link.                                              *)
LEMMA PointAtKeeps ==
    ASSUME ReadingsInv, NEW l \in Links, PointAt(l)
    PROVE  ReadingsInv'
  <1>1. /\ FromParams(l) # None /\ hover' = Opened(l) /\ due' = TRUE
        /\ UNCHANGED <<coordinatePanel, inline, coordinatePage, answers, inflight, copying>>
    BY DEF PointAt, requests
  <1>2. hover' \in SurfaceRec /\ Waits(hover', inflight) /\ ItsOwn(hover')
    BY <1>1, OpenedWaits
  <1>3. CopiesAreSound' /\ CopiedIsTrue' /\ ButtonsAreEven'
    BY <1>1, CopyingStays DEF ReadingsInv
  <1> QED BY <1>1, <1>2, <1>3 DEF ReadingsInv, ReadingsTypeOK, SurfacesWait, VerdictsAreTrue, PageIsOfItsShell, copying

(* So does a map in the line, once it is near.                             *)
LEMMA ScrollNearKeeps ==
    ASSUME ReadingsInv, NEW l \in Links, ScrollNear(l)
    PROVE  ReadingsInv'
  <1>1. /\ FromParams(l) # None /\ inline' = Opened(l) /\ due' = TRUE
        /\ UNCHANGED <<coordinatePanel, hover, coordinatePage, answers, inflight, copying>>
    BY DEF ScrollNear, requests
  <1>2. inline' \in SurfaceRec /\ Waits(inline', inflight) /\ ItsOwn(inline')
    BY <1>1, OpenedWaits
  <1>3. CopiesAreSound' /\ CopiedIsTrue' /\ ButtonsAreEven'
    BY <1>1, CopyingStays DEF ReadingsInv
  <1> QED BY <1>1, <1>2, <1>3 DEF ReadingsInv, ReadingsTypeOK, SurfacesWait, VerdictsAreTrue, PageIsOfItsShell, copying

(* A hover that ends takes nothing with it.                                *)
LEMMA LeaveKeeps ==
    ASSUME ReadingsInv, Leave
    PROVE  ReadingsInv'
  <1>1. CopiesAreSound' /\ CopiedIsTrue' /\ ButtonsAreEven'
    BY CopyingStays DEF ReadingsInv, Leave
  <1> QED BY <1>1 DEF Leave, ReadingsInv, ReadingsTypeOK, SurfacesWait, Waits, ItsOwn, VerdictsAreTrue, PageIsOfItsShell, copying, requests

(* An answer reaches every surface that waits for it, and the panel is     *)
(* drawn again, unless effects are due.                                    *)
LEMMA ReplyKeeps ==
    ASSUME ReadingsInv, NEW l \in Links, NEW status \in {"ready", "rejected", "failed"}, Reply(l, status)
    PROVE  ReadingsInv'
  <1>1. /\ status = "ready" => l.issued
        /\ answers' = IF status = "failed" THEN answers ELSE [answers EXCEPT ![l] = status]
        /\ inflight' = inflight \ {l}
        /\ coordinatePanel' = Taken(coordinatePanel, l, status)
        /\ hover' = Taken(hover, l, status)
        /\ inline' = Taken(inline, l, status)
        /\ coordinatePage' = coordinatePage
        /\ (due /\ UNCHANGED <<due, copying>>) \/ (~due /\ Rerender(coordinatePanel', hiddenRows, maps))
    BY DEF Reply
  <1>2. /\ coordinatePanel' \in {None} \cup PanelRec /\ Waits(coordinatePanel', inflight')
        /\ hover' \in {None} \cup SurfaceRec /\ Waits(hover', inflight') /\ ItsOwn(hover')
        /\ inline' \in {None} \cup SurfaceRec /\ Waits(inline', inflight') /\ ItsOwn(inline')
    BY <1>1, TakenWaits DEF ReadingsInv, ReadingsTypeOK, SurfacesWait
  <1>3. /\ answers' \in [Links -> {"loading", "ready", "rejected"}] /\ VerdictsAreTrue'
        /\ inflight' \subseteq Links
    BY <1>1 DEF ReadingsInv, ReadingsTypeOK, VerdictsAreTrue
  <1>4. SurfacesWait' /\ PageIsOfItsShell'
    BY <1>1, <1>2 DEF ReadingsInv, SurfacesWait, PageIsOfItsShell
  <1>5. CASE due /\ UNCHANGED <<due, copying>>
    <2>1. CopiesAreSound' /\ CopiedIsTrue' /\ ButtonsAreEven'
      BY <1>5, CopyingStays DEF ReadingsInv
    <2> QED BY <1>2, <1>3, <1>4, <1>5, <2>1 DEF ReadingsInv, ReadingsTypeOK, copying
  <1>6. CASE ~due /\ Rerender(coordinatePanel', hiddenRows, maps)
    BY <1>2, <1>3, <1>4, <1>6, DrawnAgain DEF Rerender
  <1> QED BY <1>1, <1>5, <1>6

(* The reader's and the administrator's settings take surfaces away.       *)
LEMMA SettingsKeep ==
    ASSUME ReadingsInv, (\E id : Hide(id)) \/ (\E surface : SwitchMap(surface))
    PROVE  ReadingsInv'
  <1>1. /\ coordinatePanel' = coordinatePanel /\ UNCHANGED <<coordinatePage, answers, inflight>>
        /\ hover' \in {None, hover} /\ inline' \in {None, inline} /\ ~due
    BY DEF Hide, SwitchMap, requests
  <1>2. PICK notShown, on : Rerender(coordinatePanel', notShown, on)
    BY <1>1 DEF Hide, SwitchMap
  <1>3. SurfacesWait' /\ VerdictsAreTrue' /\ PageIsOfItsShell'
    BY <1>1 DEF ReadingsInv, SurfacesWait, Waits, ItsOwn, VerdictsAreTrue, PageIsOfItsShell
  <1> QED BY <1>1, <1>2, <1>3, DrawnAgain DEF ReadingsInv, ReadingsTypeOK, Rerender

(* What is written to the clipboard is the button's value at the click.    *)
LEMMA CopyKeeps ==
    ASSUME ReadingsInv, NEW row \in Copyable, Copy(row)
    PROVE  ReadingsInv'
  <1>1. /\ button[row].value \in Value /\ Sound(button[row].value) /\ button[row].value.row = row
        /\ writes' = writes \cup {[value |-> button[row].value, live |-> TRUE]}
        /\ UNCHANGED <<coordinatePanel, hover, inline, due, coordinatePage, answers, inflight, button, clipboard>>
    BY DEF Copy, requests, ReadingsInv, ReadingsTypeOK, ButtonRec, CopiesAreSound
  <1>2. writes' \subseteq [value : Value, live : BOOLEAN]
    <2>1. [value |-> button[row].value, live |-> TRUE] \in [value : Value, live : BOOLEAN]
      BY <1>1
    <2>2. writes \subseteq [value : Value, live : BOOLEAN]
      BY DEF ReadingsInv, ReadingsTypeOK
    <2> QED BY <1>1, <2>1, <2>2
  <1>3. CopiesAreSound'
    BY <1>1 DEF ReadingsInv, CopiesAreSound, Sound
  <1>4. CopiedIsTrue' /\ ButtonsAreEven'
    BY <1>1 DEF ReadingsInv, CopiedIsTrue, ButtonsAreEven, SomeBehind, Behind
  <1> QED BY <1>1, <1>2, <1>3, <1>4 DEF ReadingsInv, ReadingsTypeOK, SurfacesWait, Waits, ItsOwn, VerdictsAreTrue, PageIsOfItsShell

(* A write that is still of its button's generation wrote the text the     *)
(* button has, or had when its effect last ran.                            *)
LEMMA WriteSettlesKeeps ==
    ASSUME ReadingsInv, NEW w \in writes, NEW ok \in BOOLEAN, WriteSettles(w, ok)
    PROVE  ReadingsInv'
  <1> DEFINE at == w.value.row
             told == [button[at] EXCEPT !.copied = TRUE, !.last = w.value]
  <1>1. /\ w \in [value : Value, live : BOOLEAN] /\ Sound(w.value) /\ at \in Copyable
        /\ w.live => Text(w.value) \in {button[at].seen, Text(button[at].value)}
    BY DEF ReadingsInv, ReadingsTypeOK, CopiesAreSound, Value
  <1>2. /\ writes' = writes \ {w} /\ clipboard' = IF ok THEN w.value ELSE clipboard
        /\ button' = IF ok /\ w.live /\ button[at].value # None THEN [button EXCEPT ![at] = told] ELSE button
        /\ UNCHANGED <<coordinatePanel, hover, inline, due, coordinatePage, answers, inflight>>
    BY DEF WriteSettles, requests
  <1>3. /\ button \in [Copyable -> ButtonRec] /\ button[at] \in ButtonRec /\ w.value \in Value
    BY <1>1 DEF ReadingsInv, ReadingsTypeOK
  <1>4. /\ told \in ButtonRec /\ told.value = button[at].value
        /\ told.seen = button[at].seen /\ told.last = w.value
    BY <1>3 DEF ButtonRec
  <1>5. \/ button' = button
        \/ w.live /\ button' = [button EXCEPT ![at] = told]
    BY <1>2
  <1> HIDE DEF told
  <1>6. /\ button' \in [Copyable -> ButtonRec]
        /\ \A row \in Copyable : button'[row].value = button[row].value /\ button'[row].seen = button[row].seen
    BY <1>1, <1>3, <1>4, <1>5
  <1>7. CopiedIsTrue'
    <2>1. ASSUME NEW row \in Copyable, button'[row].copied
          PROVE  Text(button'[row].last) = Text(button'[row].value) \/ Behind(row)'
      <3>1. CASE button'[row] = button[row]
        BY <2>1, <3>1 DEF ReadingsInv, CopiedIsTrue, Behind
      <3>2. CASE row = at /\ w.live /\ button' = [button EXCEPT ![at] = told]
        BY <1>1, <1>3, <1>4, <3>2 DEF Behind
      <3> QED BY <1>3, <1>5, <3>1, <3>2
    <2> QED BY <2>1 DEF CopiedIsTrue
  <1>8. CopiesAreSound'
    BY <1>1, <1>2, <1>6 DEF ReadingsInv, ReadingsTypeOK, Value, CopiesAreSound, Sound
  <1>9. ReadingsTypeOK' /\ ButtonsAreEven'
    BY <1>1, <1>2, <1>6 DEF ReadingsInv, ReadingsTypeOK, ButtonsAreEven, SomeBehind, Behind
  <1> QED BY <1>2, <1>7, <1>8, <1>9 DEF ReadingsInv, SurfacesWait, Waits, ItsOwn, VerdictsAreTrue, PageIsOfItsShell

(* An acknowledgment ends on its own.                                      *)
LEMMA AcknowledgmentEndsKeeps ==
    ASSUME ReadingsInv, NEW row \in Copyable, AcknowledgmentEnds(row)
    PROVE  ReadingsInv'
  <1>1. /\ button' = [button EXCEPT ![row].copied = FALSE]
        /\ UNCHANGED <<coordinatePanel, hover, inline, due, coordinatePage, answers, inflight, writes, clipboard>>
    BY DEF AcknowledgmentEnds, requests
  <1>2. /\ button' \in [Copyable -> ButtonRec]
        /\ \A r \in Copyable : /\ button'[r].value = button[r].value /\ button'[r].last = button[r].last
                               /\ button'[r].seen = button[r].seen
                               /\ button'[r].copied => button[r].copied
    BY <1>1 DEF ReadingsInv, ReadingsTypeOK, ButtonRec
  <1>3. CopiesAreSound' /\ CopiedIsTrue' /\ ButtonsAreEven'
    BY <1>1, <1>2 DEF ReadingsInv, ReadingsTypeOK, Value, CopiesAreSound, CopiedIsTrue, Sound, ButtonsAreEven, SomeBehind, Behind
  <1> QED BY <1>1, <1>2, <1>3 DEF ReadingsInv, ReadingsTypeOK, SurfacesWait, Waits, ItsOwn, VerdictsAreTrue, PageIsOfItsShell

(* A page shows what its shell carries, and touches nothing else.          *)
LEMMA OpenPageKeeps ==
    ASSUME ReadingsInv, NEW shell \in Shells, OpenPage(shell)
    PROVE  ReadingsInv'
  <1>1. CopiesAreSound' /\ CopiedIsTrue' /\ ButtonsAreEven'
    BY CopyingStays DEF ReadingsInv, OpenPage
  <1>2. PageIsOfItsShell'
    BY DEF OpenPage, PageIsOfItsShell
  <1> QED BY <1>1, <1>2 DEF OpenPage, ReadingsInv, ReadingsTypeOK, SurfacesWait, Waits, ItsOwn, VerdictsAreTrue, copying, requests

(* Nothing is open, asked for or copied at first.                          *)
LEMMA ReadingsBegin == LocationInit => ReadingsInv
  <1> SUFFICES ASSUME LocationInit PROVE ReadingsInv
    OBVIOUS
  <1>1. NoButton \in ButtonRec /\ NoButton.value = None /\ NoButton.seen = None /\ NoButton.copied = FALSE
    BY DEF NoButton, ButtonRec
  <1>2. \A row \in Copyable : button[row] = NoButton
    BY DEF LocationInit
  <1>3. ReadingsTypeOK
    BY <1>1 DEF LocationInit, ReadingsTypeOK
  <1>4. VerdictsAreTrue /\ SurfacesWait /\ PageIsOfItsShell
    BY DEF LocationInit, VerdictsAreTrue, SurfacesWait, Waits, ItsOwn, PageIsOfItsShell
  <1>5. CopiesAreSound
    BY <1>1, <1>2 DEF LocationInit, CopiesAreSound
  <1>6. CopiedIsTrue
    BY <1>1, <1>2 DEF CopiedIsTrue
  <1>7. ButtonsAreEven
    <2>1. Text(None) = None
      BY DEF Text
    <2> QED BY <1>1, <1>2, <2>1 DEF ButtonsAreEven, SomeBehind, Behind
  <1> QED BY <1>3, <1>4, <1>5, <1>6, <1>7 DEF ReadingsInv

(* Every step keeps the invariant, so it always holds.                     *)
LEMMA ReadingsKeep == ReadingsInv /\ [LocationNext]_location_vars => ReadingsInv'
  <1> SUFFICES ASSUME ReadingsInv, [LocationNext]_location_vars PROVE ReadingsInv'
    OBVIOUS
  <1>1. CASE UNCHANGED location_vars
    BY <1>1, CopyingStays
    DEF location_vars, requests, copying, ReadingsInv, ReadingsTypeOK, VerdictsAreTrue, SurfacesWait, Waits, ItsOwn, PageIsOfItsShell
  <1>2. CASE \E l \in Links : Open(l) \/ PointAt(l) \/ ScrollNear(l)
    BY <1>2, OpenKeeps, PointAtKeeps, ScrollNearKeeps
  <1>3. CASE Customize \/ Leave \/ Effects
    BY <1>3, CustomizeKeeps, LeaveKeeps, EffectsKeep
  <1>4. CASE \E l \in Links, status \in {"ready", "rejected", "failed"} : Reply(l, status)
    BY <1>4, ReplyKeeps
  <1>5. CASE (\E id \in Offered : Hide(id)) \/ \E surface \in MapSurfaces : SwitchMap(surface)
    BY <1>5, SettingsKeep
  <1>6. CASE \E row \in Copyable : Copy(row) \/ AcknowledgmentEnds(row)
    BY <1>6, CopyKeeps, AcknowledgmentEndsKeeps
  <1>7. CASE \E w \in writes, ok \in BOOLEAN : WriteSettles(w, ok)
    BY <1>7, WriteSettlesKeeps
  <1>8. CASE \E shell \in Shells : OpenPage(shell)
    BY <1>8, OpenPageKeeps
  <1> QED BY <1>1, <1>2, <1>3, <1>4, <1>5, <1>6, <1>7, <1>8 DEF LocationNext, Moves

(* It holds from the start, and always.                                    *)
LEMMA ReadingsInvariance == LocationSpec => []ReadingsInv
  BY ReadingsBegin, ReadingsKeep, PTL DEF LocationSpec

-----------------------------------------------------------------------------
(* Where a link is drawn does not depend on the surface, nor on when the   *)
(* server answered; and only its answer gives the server's place.          *)
LEMMA OneView ==
    ASSUME NEW payload, NEW s \in Statuses, NEW t \in Statuses
    PROVE  LET v == ViewFor(payload, s)
               w == ViewFor(payload, t)
           IN  /\ v.known /\ w.known => v = w
               /\ v.at = "server" => s = "ready"
  <1>1. CASE payload.coord # None
    BY <1>1 DEF ViewFor
  <1>2. CASE payload.coord = None
    BY <1>2 DEF ViewFor
  <1> QED BY <1>1, <1>2

\* What a surface with a map shows, if anything.
IsViewOf(view, surface) ==
    surface # None /\ view = ViewFor(FromParams(surface.link), surface.status)

(* The panel's map, where it has one.                                      *)
LEMMA PanelDrawsItsLink ==
    ASSUME NEW p \in PanelRec, p # None, NEW notShown, NEW on,
           PanelShows(p, notShown, on) # None,
           "map" \in DOMAIN PanelShows(p, notShown, on),
           PanelShows(p, notShown, on).map # None
    PROVE  IsViewOf(PanelShows(p, notShown, on).map, p)
  <1>1. CASE p.editing \/ p.status = "rejected"
    BY <1>1 DEF PanelShows, Readings
  <1>2. CASE ~p.editing /\ p.status # "rejected"
    <2> DEFINE payload == FromParams(p.link)
    <2>1. PanelShows(p, notShown, on) = Readings(payload, p.status, notShown, on)
      BY <1>2 DEF PanelShows
    <2>2. Readings(payload, p.status, notShown, on).map \in {ViewFor(payload, p.status), None}
      BY <1>2 DEF Readings
    <2> QED BY <2>1, <2>2 DEF IsViewOf
  <1> QED BY <1>1, <1>2

(* A pin is a surface's, and drawn where its link is.                      *)
LEMMA PinsAreOfSurfaces ==
    ASSUME ReadingsInv, NEW pin \in Pins(PanelShows(coordinatePanel, hiddenRows, maps))
    PROVE  \E surface \in {coordinatePanel, hover, inline} : /\ IsViewOf(pin.view, surface)
                                                          /\ pin.of = surface.link /\ pin.by = surface.by
  <1> DEFINE shown == PanelShows(coordinatePanel, hiddenRows, maps)
             Pinned(surface, what) == /\ what # None /\ "map" \in DOMAIN what /\ what.map # None
                                      /\ pin = [of |-> surface.link, by |-> surface.by, view |-> what.map]
  <1>1. Pinned(coordinatePanel, shown) \/ Pinned(hover, HoverShows) \/ Pinned(inline, InlineShows)
    BY DEF Pins
  <1>2. CASE Pinned(coordinatePanel, shown)
    <2>1. coordinatePanel # None
      BY <1>2 DEF PanelShows
    <2>2. coordinatePanel \in PanelRec
      BY <2>1 DEF ReadingsInv, ReadingsTypeOK
    <2> QED BY <1>2, <2>1, <2>2, PanelDrawsItsLink
  <1>3. CASE Pinned(hover, HoverShows)
    BY <1>3 DEF HoverShows, IsViewOf
  <1>4. CASE Pinned(inline, InlineShows)
    BY <1>4 DEF InlineShows, IsViewOf
  <1> QED BY <1>1, <1>2, <1>3, <1>4

(* The surfaces put a link's pin in one place, each by the link's own      *)
(* answer, and the server's place only by an issued link's.                *)
LEMMA PinsAgree == ReadingsInv => OnePin(PanelShows(coordinatePanel, hiddenRows, maps))
  <1> SUFFICES ASSUME ReadingsInv,
                      NEW p \in Pins(PanelShows(coordinatePanel, hiddenRows, maps)),
                      NEW q \in Pins(PanelShows(coordinatePanel, hiddenRows, maps))
               PROVE  /\ p.of = q.of /\ p.view.known /\ q.view.known => p.view = q.view
                      /\ p.view.at = "server" => p.by.issued
    BY DEF OnePin
  <1>1. PICK s \in {coordinatePanel, hover, inline} : IsViewOf(p.view, s) /\ p.of = s.link /\ p.by = s.by
    BY PinsAreOfSurfaces
  <1>2. PICK t \in {coordinatePanel, hover, inline} : IsViewOf(q.view, t) /\ q.of = t.link /\ q.by = t.by
    BY PinsAreOfSurfaces
  <1>3. s.status \in Statuses /\ t.status \in Statuses
    BY <1>1, <1>2 DEF IsViewOf, ReadingsInv, ReadingsTypeOK, PanelRec, SurfaceRec
  <1>4. s.status = "ready" => s.by.issued
    BY <1>1 DEF IsViewOf, ReadingsInv, SurfacesWait, Waits
  <1> QED BY <1>1, <1>2, <1>3, <1>4, OneView DEF IsViewOf

(* The author's own words and the server's are shown and copied by an      *)
(* issued link's answer only, which is the link's own but while a panel's  *)
(* request is unanswered, and "Copied" stands only under what was copied,  *)
(* for any number of links, clicks, answers, settings and late effects     *)
(* (convert.ts, LocationReadings.tsx, CopyButton.tsx).                     *)
THEOREM TheAuthorIsVouchedFor == LocationSpec => []AuthorsTextIsVouched
  <1>1. ReadingsInv => AuthorsTextIsVouched
    <2> SUFFICES ASSUME ReadingsInv PROVE AuthorsTextIsVouched
      OBVIOUS
    <2> DEFINE shown == PanelShows(coordinatePanel, hiddenRows, maps)
               copies == ({clipboard} \ {None}) \cup {w.value : w \in writes}
    <2>1. CopiedIsTrue /\ OnePin(shown)
      BY PinsAgree DEF ReadingsInv
    <2>2. coordinatePanel # None => coordinatePanel \in PanelRec /\ (coordinatePanel.status = "ready" => coordinatePanel.by.issued)
      BY DEF ReadingsInv, ReadingsTypeOK, SurfacesWait, Waits
    <2>3. ASSUME shown # None, IsReading(shown), NEW row \in Rows, shown.rows[row] \in {"author", "server"}
          PROVE  coordinatePanel.by.issued
      <3>1. coordinatePanel # None
        BY <2>3 DEF PanelShows
      <3> QED BY <2>2, <2>3, <3>1, PanelIsSound
    <2>4. ASSUME NEW c \in copies
          PROVE  c.is \notin Placeholders /\ (c.is \in {"author", "server"} => c.by.issued)
      <3>1. c \in Value /\ Sound(c)
        BY DEF ReadingsInv, ReadingsTypeOK, CopiesAreSound
      <3> QED BY <3>1 DEF Value, ReadingWords, Placeholders, Sound
    <2>5. /\ \A s \in Mounted :
                 /\ s.status = "ready" => s.by.issued
                 /\ s.status = "loading" \/ ~OwnAnswer(s) => Unanswered(s)
                 /\ s.waits # None => s.waits \in inflight
          /\ \A s \in {hover, inline} \ {None} : OwnAnswer(s)
      BY DEF ReadingsInv, SurfacesWait, Waits, ItsOwn, Mounted, OwnAnswer, Unanswered
    <2>6. coordinatePanel # None /\ coordinatePanel.status = "rejected" => shown \in {[refused |-> TRUE], [editor |-> TRUE]}
      BY <2>2, PanelForms
    <2> HIDE DEF shown
    <2> QED BY <2>1, <2>3, <2>4, <2>5, <2>6 DEF AuthorsTextIsVouched, shown
  <1> QED BY <1>1, ReadingsInvariance, PTL

-----------------------------------------------------------------------------
(* The readings of a page, from the server's conversion or without it.     *)
LEMMA PageRows ==
    ASSUME NEW shell, shell.mode # "map"
    PROVE  \A row \in Rows : PageShows(shell).rows[row] = Values(PayloadFor(shell), ConversionFrom(shell))[row]
  <1>1. PageShows(shell) = Readings(PayloadFor(shell), ConversionFrom(shell), {}, MapsFrom(shell))
    BY DEF PageShows
  <1>2. ConversionFrom(shell) # "rejected"
    BY DEF ConversionFrom
  <1>3. Readings(PayloadFor(shell), ConversionFrom(shell), {}, MapsFrom(shell)).rows =
            [row \in Rows |-> Values(PayloadFor(shell), ConversionFrom(shell))[row]]
    BY <1>2 DEF Readings
  <1> QED BY <1>1, <1>3

(* What a page is drawn for: its link, read here where it can be.          *)
LEMMA PayloadOfAPage ==
    ASSUME NEW shell
    PROVE  /\ PayloadFor(shell).link = shell.link
           /\ (PayloadFor(shell).coord # None) =
                  (FromParams(shell.link) # None /\ ParseCanonical(shell.link.token, 0) # None)
  <1>1. CASE FromParams(shell.link) # None
    BY <1>1, PayloadIsOfItsLink DEF PayloadFor
  <1>2. CASE FromParams(shell.link) = None
    BY <1>2 DEF PayloadFor
  <1> QED BY <1>1, <1>2

(* Which reading a row of a page has.                                      *)
LEMMA ReadingOfARow ==
    ASSUME NEW payload, NEW status \in {"ready", "failed"}
    PROVE  LET value == Values(payload, status)
               remote(row) == status = "ready" /\ row \in Converted(payload.link)
           IN  /\ value["raw"] # "" /\ value["datum"] # ""
               /\ \A row \in Texts \cup Grids \cup Areas :
                      /\ value[row] # ""
                      /\ value[row] \in Placeholders => ~remote(row) /\ ~(payload.coord # None /\ row \in Texts)
               /\ payload.coord = None /\ RemoteCell(payload.link.token) = None => value["resolution"] = ""
  <1>1. \A row : /\ Remote(row, payload.link, status) \in {"server", "unavailable"}
                 /\ status = "ready" /\ row \in Converted(payload.link) => Remote(row, payload.link, status) = "server"
    BY DEF Remote
  <1>2. Values(payload, status)["raw"] \in {"author", "token"}
    <2>1. "raw" \in Rows /\ "raw" \notin Texts \cup Grids \cup Areas
      BY DEF Rows, Texts, Grids, Areas
    <2>2. Values(payload, status)["raw"] = VouchedText(payload.link, status)
      BY <2>1 DEF Values
    <2> QED BY <2>2 DEF VouchedText
  <1>3. Values(payload, status)["datum"] = "fixed"
    <2>1. "datum" \in Rows /\ "datum" \notin Texts \cup Grids \cup Areas
      BY DEF Rows, Texts, Grids, Areas
    <2> QED BY <2>1 DEF Values
  <1>4. payload.coord = None /\ RemoteCell(payload.link.token) = None => Values(payload, status)["resolution"] = ""
    <2>1. "resolution" \in Rows /\ "resolution" \notin Texts \cup Grids \cup Areas
      BY DEF Rows, Texts, Grids, Areas
    <2> QED BY <2>1 DEF Values
  <1>5. ASSUME NEW row \in Texts
        PROVE  Values(payload, status)[row] = IF payload.coord # None THEN "local" ELSE Remote(row, payload.link, status)
    <2>1. row \in Rows /\ row \notin {"raw", "canonical", "datum", "confidence", "resolution"} \cup Grids \cup Areas
      BY DEF Rows, Texts, Grids, Areas
    <2> QED BY <2>1 DEF Values
  <1>6. ASSUME NEW row \in Grids
        PROVE  Values(payload, status)[row] \in {"token", Remote(row, payload.link, status)} /\ row \notin Texts
    <2>1. row \in Rows /\ row \notin {"raw", "canonical", "datum", "confidence", "resolution"} \cup Texts \cup Areas
      BY DEF Rows, Texts, Grids, Areas
    <2>2. Values(payload, status)[row] = GridRow(payload, row, status)
      BY <2>1 DEF Values
    <2> QED BY <2>1, <2>2 DEF GridRow
  <1>7. ASSUME NEW row \in Areas
        PROVE  Values(payload, status)[row] \in {"token", Remote(row, payload.link, status)} /\ row \notin Texts
    <2>1. row \in Rows /\ row \notin {"raw", "canonical", "datum", "confidence", "resolution"} \cup Texts \cup Grids
      BY DEF Rows, Texts, Grids, Areas
    <2>2. Values(payload, status)[row] = AreaRow(payload, row, status)
      BY <2>1 DEF Values
    <2> QED BY <2>1, <2>2 DEF AreaRow
  <1>8. \A row \in Texts \cup Grids \cup Areas :
            /\ Values(payload, status)[row] # ""
            /\ Values(payload, status)[row] \in Placeholders =>
                   ~(status = "ready" /\ row \in Converted(payload.link)) /\ ~(payload.coord # None /\ row \in Texts)
    BY <1>1, <1>5, <1>6, <1>7 DEF Placeholders
  <1> QED BY <1>2, <1>3, <1>4, <1>8

(* A token of a format this build does not know has no position and no     *)
(* cell here.                                                              *)
LEMMA UnknownFormat ==
    ASSUME NEW t, t.format \notin LocalFormats \cup RemoteFormats
    PROVE  ParseCanonical(t, 0) = None /\ RemoteCell(t) = None
  <1>1. ParseCanonical(t, 0) = None
    BY DEF ParseCanonical
  <1>2. t.format \notin {"utm", "mgrs", "georef", "gars", "pluscode"}
    BY DEF RemoteFormats
  <1> QED BY <1>1, <1>2 DEF RemoteCell

(* A page is never blank, nor poorer than what the server sent with it,    *)
(* for any document the server may write (page/payload.ts).                *)
THEOREM PagesShowWhatWasSent == LocationSpec => []PageShowsTheServersReadings
  <1>1. ReadingsInv => PageShowsTheServersReadings
    <2> SUFFICES ASSUME ReadingsInv, coordinatePage # None PROVE PageShowsTheServersReadings
      BY DEF PageShowsTheServersReadings
    <2> DEFINE shell == coordinatePage.shell
               l == shell.link
               payload == PayloadFor(shell)
               status == ConversionFrom(shell)
               whole == shell.conversion = "whole"
               local == FromParams(l) # None /\ ParseCanonical(l.token, 0) # None
    <2>1. coordinatePage.shows = PageShows(shell)
      BY DEF ReadingsInv, PageIsOfItsShell
    <2>2. payload.link = l /\ (payload.coord # None) = local
      BY PayloadOfAPage
    <2>3. status \in {"ready", "failed"} /\ (status = "ready") = whole
      BY DEF ConversionFrom
    <2> HIDE DEF payload, status
    <2>4. CASE shell.mode = "map"
      <3>1. coordinatePage.shows = [map |-> ViewFor(payload, status), written |-> VouchedText(l, status)]
        BY <2>1, <2>2, <2>4 DEF PageShows, MapPageShows, payload, status
      <3>2. coordinatePage.shows.map.known = (whole \/ local)
        <4>1. ViewFor(payload, status).known = (payload.coord # None \/ status = "ready")
          BY DEF ViewFor
        <4> QED BY <2>2, <2>3, <3>1, <4>1
      <3>3. whole /\ l.raw # "same" => coordinatePage.shows.written = "author"
        BY <2>3, <3>1 DEF VouchedText
      <3> QED BY <2>4, <3>2, <3>3 DEF PageShowsTheServersReadings
    <2>5. CASE shell.mode # "map"
      <3>1. \A row \in Rows : coordinatePage.shows.rows[row] = Values(payload, status)[row]
        BY <2>1, <2>5, PageRows DEF payload, status
      <3>2. {"raw", "datum", "resolution"} \cup Texts \cup Grids \cup Areas \subseteq Rows
        BY DEF Rows
      <3>3. "" \notin {coordinatePage.shows.rows["raw"], coordinatePage.shows.rows["datum"]}
        <4>1. Values(payload, status)["raw"] # "" /\ Values(payload, status)["datum"] # ""
          BY <2>3, ReadingOfARow
        <4> QED BY <3>1, <3>2, <4>1
      <3>4. ASSUME NEW row \in Texts \cup Grids \cup Areas
            PROVE  /\ coordinatePage.shows.rows[row] # ""
                   /\ coordinatePage.shows.rows[row] \in Placeholders =>
                          ~(whole /\ row \in Converted(l)) /\ ~(local /\ row \in Texts)
        BY <2>2, <2>3, <3>1, <3>2, ReadingOfARow
      <3>5. l.token.format \notin LocalFormats \cup RemoteFormats => coordinatePage.shows.rows["resolution"] = ""
        BY <2>2, <2>3, <3>1, <3>2, ReadingOfARow, UnknownFormat
      <3> QED BY <2>5, <3>3, <3>4, <3>5 DEF PageShowsTheServersReadings
    <2> QED BY <2>4, <2>5
  <1> QED BY <1>1, ReadingsInvariance, PTL

-----------------------------------------------------------------------------
\* A document and its surfaces.
\* The post as it was read, for as long as its props are there.
PostIsRead ==
    /\ post = [name |-> post.name, payload |-> post.payload, lost |-> post.lost,
               edited |-> post.edited, fileIds |-> post.fileIds]
    /\ post.name \in DOMAIN Posts
    /\ post.lost => post.edited
    /\ post.payload = IF post.lost THEN Nothing ELSE Read(Posts[post.name])

\* The panel was opened from a card, which had a document to show.
PanelIsOfACard ==
    panel # Nothing => panel = Read(Posts[post.name]) /\ Kind(post) # "airfields"

\* A link was taken from a card, or a panel, that had a map.
LinkIsOfACard ==
    link => LET payload == Read(Posts[post.name])
            IN  /\ payload # Nothing
                /\ \A on, id : CanvasOf(post, payload, on, id) # Nothing
                /\ Kind(post) = "airfields" => Air!Agrees(Posts[post.name].codes, payload)

SurfacesInv == PostIsRead /\ PanelIsOfACard /\ LinkIsOfACard

CanvasParts == {"at", "markers", "accuracy", "ellipse", "shapes", "label", "larger"}
IsPicture(m) == DOMAIN m = CanvasParts /\ m = [part \in DOMAIN m |-> m[part]]

\* Two maps draw the same, wherever their links lead.
DrawTheSame(m, n) ==
    /\ IsPicture(m) /\ IsPicture(n)
    /\ m.at = n.at /\ m.markers = n.markers /\ m.accuracy = n.accuracy
    /\ m.ellipse = n.ellipse /\ m.shapes = n.shapes /\ m.label = n.label

ButForItsLink(m) == [m EXCEPT !.larger = ""]

(* What draws the same is equal but for the link.                          *)
LEMMA SameButForItsLink ==
    ASSUME NEW m, NEW n, DrawTheSame(m, n)
    PROVE  m # Nothing /\ ButForItsLink(m) = ButForItsLink(n)
  <1>1. DOMAIN m = DOMAIN n /\ "at" \in DOMAIN m
    BY DEF DrawTheSame, IsPicture, CanvasParts
  <1>2. m = [part \in DOMAIN m |-> m[part]] /\ n = [part \in DOMAIN n |-> n[part]]
    BY DEF DrawTheSame, IsPicture
  <1>3. \A part \in DOMAIN m \ {"larger"} : m[part] = n[part]
    BY DEF DrawTheSame, IsPicture, CanvasParts
  <1>4. m # Nothing
    BY <1>1 DEF Nothing
  <1>5. ButForItsLink(m) = ButForItsLink(n)
    BY <1>1, <1>2, <1>3 DEF ButForItsLink
  <1> QED BY <1>4, <1>5

(* What a canvas draws does not depend on where its "Open larger" leads,   *)
(* nor does whether it draws anything.                                     *)
LEMMA CanvasButForItsLink ==
    ASSUME NEW p, Kind(p) \in Kinds, NEW payload, NEW on, NEW id, NEW on2, NEW id2,
           CanvasOf(p, payload, on, id) # Nothing
    PROVE  /\ CanvasOf(p, payload, on2, id2) # Nothing
           /\ ButForItsLink(CanvasOf(p, payload, on2, id2)) = ButForItsLink(CanvasOf(p, payload, on, id))
  <1>1. CASE Kind(p) = "cot"
    <2> DEFINE m == Cot!Canvas(payload.events, on2, id2)
               n == Cot!Canvas(payload.events, on, id)
    <2>1. CanvasOf(p, payload, on2, id2) = m /\ CanvasOf(p, payload, on, id) = n
      BY <1>1 DEF CanvasOf
    <2>2. ~Cot!DrawsNothing(payload.events)
      BY <2>1 DEF Cot!Canvas, Nothing, Cot!Nothing
    <2>3. IsPicture(m) /\ IsPicture(n)
      BY <2>2 DEF Cot!Canvas, IsPicture, CanvasParts
    <2>4. m.at = n.at /\ m.markers = n.markers /\ m.accuracy = n.accuracy
      BY <2>2 DEF Cot!Canvas
    <2>5. m.ellipse = n.ellipse /\ m.shapes = n.shapes /\ m.label = n.label
      BY <2>2 DEF Cot!Canvas
    <2> HIDE DEF m, n
    <2> QED BY <2>1, <2>3, <2>4, <2>5, SameButForItsLink DEF DrawTheSame
  <1>2. CASE Kind(p) = "geojson"
    <2> DEFINE m == Geo!Canvas(payload, on2, id2)
               n == Geo!Canvas(payload, on, id)
    <2>1. CanvasOf(p, payload, on2, id2) = m /\ CanvasOf(p, payload, on, id) = n
      BY <1>2 DEF CanvasOf
    <2>2. ~Geo!DrawsNothing(payload)
      BY <2>1 DEF Geo!Canvas, Nothing, Geo!Nothing
    <2>3. IsPicture(m) /\ IsPicture(n)
      BY <2>2 DEF Geo!Canvas, IsPicture, CanvasParts
    <2>4. m.at = n.at /\ m.markers = n.markers /\ m.accuracy = n.accuracy
      BY <2>2 DEF Geo!Canvas
    <2>5. m.ellipse = n.ellipse /\ m.shapes = n.shapes /\ m.label = n.label
      BY <2>2 DEF Geo!Canvas
    <2> HIDE DEF m, n
    <2> QED BY <2>1, <2>3, <2>4, <2>5, SameButForItsLink DEF DrawTheSame
  <1>3. CASE Kind(p) = "report"
    <2> DEFINE m == Air!ReportCanvas(payload, on2, id2)
               n == Air!ReportCanvas(payload, on, id)
    <2>1. CanvasOf(p, payload, on2, id2) = m /\ CanvasOf(p, payload, on, id) = n
      BY <1>3 DEF CanvasOf
    <2>2. Air!ReportPlaced(payload) # Air!Nothing
      BY <2>1 DEF Air!ReportCanvas, Nothing, Air!Nothing
    <2>3. IsPicture(m) /\ IsPicture(n)
      BY <2>2 DEF Air!ReportCanvas, IsPicture, CanvasParts
    <2>4. m.at = n.at /\ m.markers = n.markers /\ m.accuracy = n.accuracy
      BY <2>2 DEF Air!ReportCanvas
    <2>5. m.ellipse = n.ellipse /\ m.shapes = n.shapes /\ m.label = n.label
      BY <2>2 DEF Air!ReportCanvas
    <2> HIDE DEF m, n
    <2> QED BY <2>1, <2>3, <2>4, <2>5, SameButForItsLink DEF DrawTheSame
  <1>4. CASE Kind(p) = "airfields"
    <2> DEFINE m == Air!AirfieldsCanvas(payload, on2, id2)
               n == Air!AirfieldsCanvas(payload, on, id)
    <2>1. CanvasOf(p, payload, on2, id2) = m /\ CanvasOf(p, payload, on, id) = n
      BY <1>4 DEF CanvasOf
    <2>2. Air!RouteMarkers(payload) # <<>>
      BY <2>1 DEF Air!AirfieldsCanvas, Nothing, Air!Nothing
    <2>3. IsPicture(m) /\ IsPicture(n)
      BY <2>2 DEF Air!AirfieldsCanvas, IsPicture, CanvasParts
    <2>4. m.at = n.at /\ m.markers = n.markers /\ m.accuracy = n.accuracy
      BY <2>2 DEF Air!AirfieldsCanvas
    <2>5. m.ellipse = n.ellipse /\ m.shapes = n.shapes /\ m.label = n.label
      BY <2>2 DEF Air!AirfieldsCanvas
    <2> HIDE DEF m, n
    <2> QED BY <2>1, <2>3, <2>4, <2>5, SameButForItsLink DEF DrawTheSame
  <1> QED BY <1>1, <1>2, <1>3, <1>4 DEF Kinds

(* A post has the kind and the canvases of its name.                       *)
LEMMA CanvasOfAName ==
    ASSUME NEW p, NEW q, p.name = q.name
    PROVE  /\ Kind(p) = Kind(q)
           /\ \A payload, on, id : CanvasOf(p, payload, on, id) = CanvasOf(q, payload, on, id)
  <1>1. Kind(p) = Kind(q)
    BY DEF Kind
  <1> QED BY <1>1 DEF CanvasOf

(* It is read when it is first seen.                                       *)
LEMMA SurfacesBegin == SurfacesInit => SurfacesInv
  <1> SUFFICES ASSUME SurfacesInit PROVE SurfacesInv
    OBVIOUS
  <1>1. PICK name \in DOMAIN Posts :
            post = [name |-> name, payload |-> Read(Posts[name]), lost |-> FALSE,
                    edited |-> FALSE, fileIds |-> Posts[name].fileIds]
    BY DEF SurfacesInit
  <1>2. link = FALSE /\ panel = Nothing
    BY DEF SurfacesInit
  <1> QED BY <1>1, <1>2 DEF SurfacesInv, PostIsRead, PanelIsOfACard, LinkIsOfACard

(* The panel's map of an event never leads to the post.                    *)
LEMMA EventMapsKnowNoPost == \A event, on : ~LeadsToThePost(Cot!PanelCanvas(event, on))
  <1> SUFFICES ASSUME NEW event, NEW on, LeadsToThePost(Cot!PanelCanvas(event, on)) PROVE FALSE
    OBVIOUS
  <1> DEFINE map == Cot!Canvas(<<event>>, on, "")
  <1>1. map # Nothing /\ map.larger = "the post's map"
    BY DEF LeadsToThePost, Cot!PanelCanvas, Nothing, Cot!Nothing
  <1>2. ~Cot!DrawsNothing(<<event>>)
    BY <1>1 DEF Cot!Canvas, Nothing, Cot!Nothing
  <1>3. \E only : map.larger = Cot!LargerHref(on, only, "")
    BY <1>2 DEF Cot!Canvas
  <1> HIDE DEF map
  <1> QED BY <1>1, <1>3 DEF Cot!LargerHref

(* A link is taken from a card, which had a document to show and a map, or *)
(* from the panel such a card opened.                                      *)
LEMMA TakeLinkKeeps ==
    ASSUME SurfacesInv, TakeLink
    PROVE  SurfacesInv'
  <1> DEFINE payload == Read(Posts[post.name])
  <1>1. post' = post /\ panel' = panel
    BY DEF TakeLink
  <1>2. /\ payload # Nothing /\ CanvasOf(post, payload, features.mapPage, "id") # Nothing
        /\ Kind(post) = "airfields" => Air!Agrees(Posts[post.name].codes, payload)
    <2>1. CASE LeadsToThePost(CardMap)
      <3>1. Card(post) # Nothing /\ CanvasOf(post, Card(post), features.mapPage, "id") # Nothing
        BY <2>1 DEF LeadsToThePost, CardMap
      <3>2. /\ Card(post) = post.payload /\ post.payload # Nothing
            /\ Kind(post) = "airfields" => Air!Agrees(Posts[post.name].codes, post.payload)
        BY <3>1 DEF Card
      <3>3. post.payload = payload
        BY <3>2 DEF SurfacesInv, PostIsRead
      <3> QED BY <3>1, <3>2, <3>3
    <2>2. CASE \E i \in DOMAIN PanelMaps : LeadsToThePost(PanelMaps[i])
      <3>1. PICK i \in DOMAIN PanelMaps : LeadsToThePost(PanelMaps[i])
        BY <2>2
      <3>2. panel # Nothing
        BY <3>1 DEF PanelMaps
      <3>3. panel = payload /\ Kind(post) # "airfields"
        BY <3>2 DEF SurfacesInv, PanelIsOfACard
      <3>4. Kind(post) # "cot"
        BY <3>1, EventMapsKnowNoPost DEF PanelMaps
      <3>5. PanelMaps[i] = CanvasOf(post, panel, features.mapPage, "id")
        BY <3>1, <3>4 DEF PanelMaps
      <3> QED BY <3>1, <3>2, <3>3, <3>5 DEF LeadsToThePost
    <2> QED BY <2>1, <2>2 DEF TakeLink
  <1>3. post.name \in DOMAIN Posts
    BY DEF SurfacesInv, PostIsRead
  <1>4. Kind(post) \in Kinds
    BY <1>3, PostsAssumption DEF Kind
  <1>5. \A on, id : CanvasOf(post, payload, on, id) # Nothing
    BY <1>2, <1>4, CanvasButForItsLink
  <1>6. LinkIsOfACard'
    BY <1>1, <1>2, <1>5, CanvasOfAName DEF LinkIsOfACard
  <1>7. PanelIsOfACard'
    BY <1>1 DEF SurfacesInv, PanelIsOfACard, Kind
  <1> QED BY <1>1, <1>6, <1>7 DEF SurfacesInv, PostIsRead

(* What a card opens in the panel is what was read of the post.            *)
LEMMA OpenDetailsKeeps ==
    ASSUME SurfacesInv, OpenDetails
    PROVE  SurfacesInv'
  <1>1. /\ post' = post /\ link' = link /\ panel' = Card(post)
        /\ Card(post) # Nothing /\ Kind(post) # "airfields"
    BY DEF OpenDetails
  <1>2. Card(post) = post.payload /\ post.payload # Nothing
    BY <1>1 DEF Card
  <1>3. post.payload = Read(Posts[post.name])
    BY <1>2 DEF SurfacesInv, PostIsRead
  <1>4. PanelIsOfACard'
    BY <1>1, <1>2, <1>3 DEF PanelIsOfACard, Kind
  <1>5. LinkIsOfACard'
    BY <1>1, CanvasOfAName DEF SurfacesInv, LinkIsOfACard
  <1> QED BY <1>1, <1>4, <1>5 DEF SurfacesInv, PostIsRead

(* An edit or a lost file changes neither the name nor what was read.      *)
LEMMA PostChangesKeep ==
    ASSUME SurfacesInv, Edit \/ DetachFiles
    PROVE  SurfacesInv'
  <1>1. link' = link /\ panel' = panel /\ post'.name = post.name
    BY DEF Edit, DetachFiles, SurfacesInv, PostIsRead
  <1>2. PostIsRead'
    <2>1. CASE Edit
      <3>1. PICK lost \in BOOLEAN :
                post' = [post EXCEPT !.edited = TRUE, !.lost = lost, !.payload = IF lost THEN Nothing ELSE @]
        BY <2>1 DEF Edit
      <3>2. post' = [name |-> post.name, payload |-> IF lost THEN Nothing ELSE post.payload, lost |-> lost,
                     edited |-> TRUE, fileIds |-> post.fileIds]
        BY <3>1 DEF SurfacesInv, PostIsRead
      <3>3. /\ post' = [name |-> post'.name, payload |-> post'.payload, lost |-> post'.lost,
                        edited |-> post'.edited, fileIds |-> post'.fileIds]
            /\ post'.name = post.name /\ post'.lost = lost /\ post'.edited
            /\ post'.payload = IF lost THEN Nothing ELSE post.payload
        BY <3>2
      <3>4. ~post.lost
        BY <2>1 DEF Edit, SurfacesInv, PostIsRead
      <3> QED BY <3>3, <3>4 DEF SurfacesInv, PostIsRead
    <2>2. CASE DetachFiles
      <3>1. post' = [name |-> post.name, payload |-> post.payload, lost |-> post.lost,
                     edited |-> post.edited, fileIds |-> {}]
        BY <2>2 DEF DetachFiles, SurfacesInv, PostIsRead
      <3> QED BY <3>1 DEF SurfacesInv, PostIsRead
    <2> QED BY <2>1, <2>2
  <1>3. LinkIsOfACard'
    <2>1. /\ Kind(post') = Kind(post)
          /\ \A payload, on, id : CanvasOf(post', payload, on, id) = CanvasOf(post, payload, on, id)
      BY <1>1, CanvasOfAName
    <2> QED BY <1>1, <2>1 DEF SurfacesInv, LinkIsOfACard
  <1>4. PanelIsOfACard'
    BY <1>1 DEF SurfacesInv, PanelIsOfACard, Kind
  <1> QED BY <1>2, <1>3, <1>4 DEF SurfacesInv

(* Every step keeps what is known of the post and of its link.             *)
LEMMA SurfacesKeep == SurfacesInv /\ [SurfacesNext]_surface_vars => SurfacesInv'
  <1> SUFFICES ASSUME SurfacesInv, [SurfacesNext]_surface_vars PROVE SurfacesInv'
    OBVIOUS
  <1>1. CASE UNCHANGED <<post, panel, link>>
    BY <1>1, CanvasOfAName DEF SurfacesInv, PostIsRead, PanelIsOfACard, LinkIsOfACard, Kind
  <1>2. CASE TakeLink
    BY <1>2, TakeLinkKeeps
  <1>3. CASE Edit \/ DetachFiles
    BY <1>3, PostChangesKeep
  <1>4. CASE OpenDetails
    BY <1>4, OpenDetailsKeeps
  <1> QED BY <1>1, <1>2, <1>3, <1>4
    DEF SurfacesNext, surface_vars, PressShow, FollowLink, FollowAirportLink, Switch, ToggleInline, ToggleCompact

(* What the server still serves of a post whose card had a map, the card   *)
(* still shows.                                                            *)
LEMMA ServedIsShown ==
    ASSUME SurfacesInv, link, Served(post)
    PROVE  /\ Card(post) = post.payload /\ post.payload # Nothing
           /\ post.payload = Read(Posts[post.name])
  <1> DEFINE stamped == Posts[post.name]
  <1>1. /\ ~post.lost /\ ~post.edited
        /\ "fileId" \in DOMAIN stamped.blob => stamped.blob.fileId \in post.fileIds
    BY DEF Served
  <1>2. post.payload = Read(stamped) /\ Read(stamped) # Nothing /\ post.name \in DOMAIN Posts
    BY <1>1 DEF SurfacesInv, PostIsRead, LinkIsOfACard
  <1>3. Kind(post) = "airfields" => Air!Agrees(stamped.codes, post.payload)
    BY <1>2 DEF SurfacesInv, LinkIsOfACard
  <1>4. Cot!Text(stamped.blob, "source") = "file" => "fileId" \in DOMAIN stamped.blob
    BY <1>2, PostsAssumption
  <1>5. CASE Kind(post) = "cot"
    <2>1. post.payload = Cot!FromProps(stamped.blob)
      BY <1>2, <1>5 DEF Read, Kind
    <2>2. post.payload.source = Cot!Text(stamped.blob, "source") /\ post.payload.fileId = Cot!Text(stamped.blob, "fileId")
      BY <1>2, <2>1 DEF Cot!FromProps, Nothing, Cot!Nothing
    <2>3. FileIsThere(post)
      BY <1>1, <1>4, <2>2 DEF FileIsThere, Cot!Text
    <2> QED BY <1>1, <1>2, <1>5, <2>3 DEF Card
  <1>6. CASE Kind(post) = "geojson"
    <2>1. post.payload = Geo!FromProps(stamped.blob)
      BY <1>2, <1>6 DEF Read, Kind
    <2>2. post.payload.source = Geo!Text(stamped.blob, "source") /\ post.payload.fileId = Geo!Text(stamped.blob, "fileId")
      BY <1>2, <2>1 DEF Geo!FromProps, Nothing, Geo!Nothing
    <2>3. FileIsThere(post)
      BY <1>1, <1>4, <2>2 DEF FileIsThere, Geo!Text, Cot!Text
    <2> QED BY <1>1, <1>2, <1>6, <2>3 DEF Card
  <1>7. CASE Kind(post) \notin {"cot", "geojson"}
    BY <1>1, <1>2, <1>3, <1>7 DEF Card
  <1> QED BY <1>2, <1>5, <1>6, <1>7

(* The link of a card's map, or of the panel's that was opened from it,    *)
(* leads to that card's picture or to nothing, for any posts the server    *)
(* stamps, whatever became of the post between the taking of the link and  *)
(* the opening of the page (server/mappost.go, page/OverlayPageView.tsx).  *)
THEOREM LinksLeadToTheCard == SurfacesSpec => PageDrawsTheCard
  <1> DEFINE Faithful ==
          page' # page /\ page'.of = "post" =>
              /\ Card(post) # Nothing
              /\ page'.drawn # Nothing
              /\ [page'.drawn EXCEPT !.larger = ""] =
                 [CanvasOf(post, Card(post), TRUE, "id") EXCEPT !.larger = ""]
  <1>1. SurfacesInv /\ [SurfacesNext]_surface_vars => [Faithful]_surface_vars
    <2> SUFFICES ASSUME SurfacesInv, [SurfacesNext]_surface_vars, page' # page, page'.of = "post"
                 PROVE  /\ Card(post) # Nothing
                        /\ page'.drawn # Nothing
                        /\ [page'.drawn EXCEPT !.larger = ""] =
                           [CanvasOf(post, Card(post), TRUE, "id") EXCEPT !.larger = ""]
      OBVIOUS
    <2>1. FollowLink
      <3>1. \A airport : FollowAirportLink(airport) => page'.of = "airport"
        BY DEF FollowAirportLink
      <3>2. \/ \E i \in 1 .. 3 : PressShow(i)
            \/ OpenDetails \/ TakeLink \/ Edit \/ DetachFiles \/ ToggleInline \/ ToggleCompact
            \/ \E name \in {"mapInline", "mapPanel", "mapPage"} : Switch(name)
            => page' = page
        BY DEF PressShow, OpenDetails, TakeLink, Edit, DetachFiles, Switch, ToggleInline, ToggleCompact
      <3> QED BY <3>1, <3>2 DEF SurfacesNext, surface_vars
    <2>2. link /\ Served(post) /\ page' = [of |-> "post", drawn |-> DrawingFor(post)]
      BY <2>1 DEF FollowLink
    <2>3. Card(post) = post.payload /\ post.payload # Nothing /\ post.payload = Read(Posts[post.name])
      BY <2>2, ServedIsShown
    <2>4. page'.drawn = CanvasOf(post, Card(post), FALSE, "")
      BY <2>2, <2>3 DEF DrawingFor
    <2>5. \A on, id : CanvasOf(post, Card(post), on, id) # Nothing
      BY <2>2, <2>3 DEF SurfacesInv, LinkIsOfACard
    <2>6. Kind(post) \in Kinds
      BY PostsAssumption DEF SurfacesInv, PostIsRead, Kind
    <2>7. \A on, id, on2, id2 : ButForItsLink(CanvasOf(post, Card(post), on2, id2)) =
                                 ButForItsLink(CanvasOf(post, Card(post), on, id))
      BY <2>5, <2>6, CanvasButForItsLink
    <2>8. ButForItsLink(page'.drawn) = ButForItsLink(CanvasOf(post, Card(post), TRUE, "id"))
      BY <2>4, <2>7, Zenon
    <2> QED BY <2>3, <2>4, <2>5, <2>8, Zenon DEF ButForItsLink
  <1>2. SurfacesSpec => [][Faithful]_surface_vars
    BY <1>1, SurfacesBegin, SurfacesKeep, PTL DEF SurfacesSpec
  <1> QED BY <1>2 DEF PageDrawsTheCard

-----------------------------------------------------------------------------
(* A line of readings is of those the event states.                        *)
LEMMA OneLineIsStated ==
    ASSUME NEW event, NEW keys, NEW key \in Cot!OneLine(event, keys)
    PROVE  (\E n \in DOMAIN keys : key = keys[n]) /\ Cot!Stated(event.detail[key])
  BY DEF Cot!OneLine

(* The sidebar shows every stated extension of an event, but for what a    *)
(* route says of a shape that was not read.                                *)
LEMMA PanelShowsTheDetail ==
    ASSUME NEW event, NEW key \in Cot!DetailKeys, event.detail[key] # ""
    PROVE  \/ key \in Cot!EventSection(event, {})
           \/ key \in Cot!RouteKeys /\ event.geometry = Nothing
  <1>1. Cot!DetailGroups(event, {}) \subseteq Cot!EventSection(event, {})
    BY DEF Cot!EventSection
  <1>2. \A keys : key \in keys => key \in Cot!StatedIn(event, keys)
    BY DEF Cot!StatedIn, Cot!Stated
  <1>3. /\ Cot!StatedIn(event, Cot!DeviceKeys) \subseteq Cot!DetailGroups(event, {})
        /\ Cot!StatedIn(event, Cot!PrecisionKeys) \subseteq Cot!DetailGroups(event, {})
        /\ Cot!StatedIn(event, Cot!TelemetryKeys) \subseteq Cot!DetailGroups(event, {})
        /\ Cot!Payload(event) \subseteq Cot!DetailGroups(event, {})
        /\ Cot!Shape(event) \subseteq Cot!DetailGroups(event, {})
        /\ Cot!ProcessingPath(event) \subseteq Cot!DetailGroups(event, {})
    BY DEF Cot!DetailGroups
  <1>4. CASE key \in Cot!DeviceKeys \cup Cot!PrecisionKeys \cup Cot!TelemetryKeys
    BY <1>1, <1>2, <1>3, <1>4
  <1>5. CASE key \in Cot!SensorKeys \cup Cot!VideoKeys \cup Cot!ChatKeys \cup Cot!MedevacKeys
                        \cup Cot!GeofenceKeys \cup {"attachmentsCount"}
    <2>1. key \in Cot!Payload(event)
      BY <1>2, <1>5 DEF Cot!Payload
    <2> QED BY <1>1, <1>3, <2>1
  <1>6. CASE key \in Cot!RouteKeys
    <2>1. event.geometry = Nothing \/ key \in Cot!Shape(event)
      BY <1>2, <1>6 DEF Cot!Shape, Nothing, Cot!Nothing
    <2> QED BY <1>1, <1>3, <1>6, <2>1
  <1>7. CASE key \in Cot!RoutingKeys
    <2>1. key \in Cot!ProcessingPath(event)
      BY <1>2, <1>7 DEF Cot!ProcessingPath
    <2> QED BY <1>1, <1>3, <2>1
  <1> QED BY <1>4, <1>5, <1>6, <1>7 DEF Cot!DetailKeys

(* What the class of an event adds to its card is in the sidebar, and a    *)
(* stream it tells of has its address there.                               *)
LEMMA PanelShowsTheClass ==
    ASSUME NEW event
    PROVE  /\ Cot!ClassSummary(event) \ {"stream"} \subseteq Cot!EventSection(event, {})
           /\ "stream" \in Cot!ClassSummary(event) => Cot!EventSection(event, {}) \cap Cot!VideoKeys # {}
  <1> DEFINE shown == Cot!EventSection(event, {})
             told == Cot!SensorKeys \cup Cot!VideoKeys \cup Cot!ChatKeys \cup Cot!MedevacKeys
  <1>1. ASSUME NEW key \in told, Cot!Stated(event.detail[key])
        PROVE  key \in shown
    <2>1. key \in Cot!Payload(event)
      BY <1>1 DEF Cot!Payload, Cot!StatedIn
    <2> QED BY <2>1 DEF Cot!DetailGroups, Cot!EventSection
  <1>2. Cot!Readings(event, {"remarks"}) \subseteq shown
    BY DEF Cot!EventSection
  <1> HIDE DEF shown
  <1>3. Cot!ChatSummary(event) \subseteq shown /\ "stream" \notin Cot!ChatSummary(event)
    <2>1. {"chatSender", "chatRoom"} \subseteq told
      BY DEF Cot!ChatKeys
    <2>2. Cot!ChatSummary(event) \subseteq {key \in {"chatSender", "chatRoom"} : Cot!Stated(event.detail[key])}
                                               \cup Cot!Readings(event, {"remarks"})
      BY DEF Cot!ChatSummary
    <2>3. Cot!Readings(event, {"remarks"}) \subseteq {"remarks"}
      BY DEF Cot!Readings
    <2> QED BY <1>1, <1>2, <2>1, <2>2, <2>3
  <1>4. /\ Cot!VideoSummary(event) \subseteq {"stream"}
        /\ "stream" \in Cot!VideoSummary(event) => shown \cap Cot!VideoKeys # {}
    <2>1. {"videoUrl", "videoConnAddress", "videoUid"} \subseteq Cot!VideoKeys
      BY DEF Cot!VideoKeys
    <2>2. Cot!VideoSummary(event) # {} =>
              \E key \in {"videoUrl", "videoConnAddress", "videoUid"} : Cot!Stated(event.detail[key])
      BY DEF Cot!VideoSummary
    <2>3. Cot!VideoSummary(event) \subseteq {"stream"}
      BY DEF Cot!VideoSummary
    <2> QED BY <1>1, <2>1, <2>2, <2>3
  <1>5. ASSUME NEW keys, \A n \in DOMAIN keys : keys[n] \in told \ {"stream"}
        PROVE  Cot!OneLine(event, keys) \subseteq shown \ {"stream"}
    BY <1>1, <1>5, OneLineIsStated
  <1>6. CASE event.cotClass = "medevac"
    <2> DEFINE keys == <<"medevacUrgent", "medevacPriority", "medevacRoutine", "medevacLitter", "medevacAmbulatory">>
    <2>1. \A n \in DOMAIN keys : keys[n] \in told \ {"stream"}
      BY DEF Cot!MedevacKeys
    <2>2. Cot!ClassSummary(event) = Cot!OneLine(event, keys)
      BY <1>6 DEF Cot!ClassSummary
    <2> HIDE DEF keys
    <2> QED BY <1>5, <2>1, <2>2 DEF shown
  <1>7. CASE event.cotClass = "sensor"
    <2> DEFINE keys == <<"sensorFov", "sensorAzimuth", "sensorRange", "sensorModel">>
    <2>1. \A n \in DOMAIN keys : keys[n] \in told \ {"stream"}
      BY DEF Cot!SensorKeys
    <2>2. Cot!ClassSummary(event) = Cot!OneLine(event, keys)
      BY <1>7 DEF Cot!ClassSummary
    <2> HIDE DEF keys
    <2> QED BY <1>5, <2>1, <2>2 DEF shown
  <1>8. CASE event.cotClass = "chat"
    BY <1>3, <1>8 DEF Cot!ClassSummary, shown
  <1>9. CASE event.cotClass = "video"
    BY <1>4, <1>9 DEF Cot!ClassSummary, shown
  <1>10. CASE event.cotClass \notin {"medevac", "sensor", "chat", "video"}
    BY <1>10 DEF Cot!ClassSummary
  <1> QED BY <1>6, <1>7, <1>8, <1>9, <1>10 DEF shown

(* The rest of an event's card is in the sidebar as well.                  *)
LEMMA PanelShowsTheEvent ==
    ASSUME NEW event
    PROVE  /\ Cot!Naming(event) \cup Cot!Degraded(event) \cup Cot!EventDetail(event)
                  \subseteq Cot!EventSection(event, {})
           /\ "stream" \notin Cot!Naming(event) \cup Cot!Degraded(event) \cup Cot!EventDetail(event)
  <1> DEFINE shown == Cot!EventSection(event, {})
  <1>1. /\ Cot!Naming(event) \subseteq shown
        /\ Cot!Readings(event, {"positionNote"}) \subseteq shown
        /\ Cot!Readings(event, {"lat", "hae", "speed", "course", "time", "start", "stale",
                                "group", "role", "parent", "related", "howLabel"}) \subseteq shown
        /\ Cot!StaleWindow(event) \subseteq shown
        /\ event.lat # <<>> => "lon" \in shown
        /\ Cot!Readings(event, {"remarks"}) \subseteq shown
        /\ Cot!DetailGroups(event, {}) \subseteq shown
    BY DEF Cot!EventSection
  <1> HIDE DEF shown
  <1>2. Cot!Degraded(event) \subseteq shown
    <2>1. Cot!Readings(event, {"detailDropped"}) \subseteq Cot!DetailGroups(event, {})
      BY DEF Cot!DetailGroups
    <2> QED BY <1>1, <2>1 DEF Cot!Degraded
  <1>3. Cot!Readings(event, {"positionNote", "lat", "speed", "time", "stale", "group"}) \subseteq shown
    <2>1. Cot!Readings(event, {"positionNote", "lat", "speed", "time", "stale", "group"}) \subseteq
              Cot!Readings(event, {"positionNote"}) \cup
              Cot!Readings(event, {"lat", "hae", "speed", "course", "time", "start", "stale",
                                   "group", "role", "parent", "related", "howLabel"})
      BY DEF Cot!Readings
    <2> QED BY <1>1, <2>1
  <1>4. Cot!Behind(event, "course", "speed") \cup Cot!Behind(event, "role", "group") \subseteq shown
    <2>1. Cot!Behind(event, "course", "speed") \cup Cot!Behind(event, "role", "group") \subseteq
              Cot!Readings(event, {"lat", "hae", "speed", "course", "time", "start", "stale",
                                   "group", "role", "parent", "related", "howLabel"})
      BY DEF Cot!Behind, Cot!Readings
    <2> QED BY <1>1, <2>1
  <1>5. Cot!EventDetail(event) \subseteq shown
    BY <1>1, <1>3, <1>4 DEF Cot!EventDetail, Nothing, Cot!Nothing
  <1>6. "stream" \notin Cot!Naming(event) \cup Cot!Degraded(event)
    BY DEF Cot!Naming, Cot!Degraded, Cot!Readings
  <1>7. "stream" \notin Cot!EventDetail(event)
    BY DEF Cot!EventDetail, Cot!Readings, Cot!Behind, Cot!StaleWindow
  <1> QED BY <1>1, <1>2, <1>5, <1>6, <1>7 DEF shown

(* A GeoJSON panel with nothing hidden shows the card's sentences.         *)
LEMMA PanelShowsTheFeatures ==
    ASSUME NEW payload
    PROVE  Geo!CardShows(payload) \subseteq Geo!PanelShows(payload, {})
  <1>1. \A f : Geo!CardFeature(f) \subseteq Geo!PanelFeature(f, "properties" \notin {})
    BY DEF Geo!CardFeature, Geo!PanelFeature
  <1>2. /\ Geo!Summary(payload) \subseteq Geo!PanelShows(payload, {})
        /\ \A f \in ToSet(payload.features) :
               Geo!PanelFeature(f, "properties" \notin {}) \subseteq Geo!PanelShows(payload, {})
    BY DEF Geo!PanelShows, Geo!ToSet, ToSet
  <1> QED BY <1>1, <1>2 DEF Geo!CardShows, Geo!ToSet, ToSet

(* A report's panel shows the rows of its card and what was posted.        *)
LEMMA PanelShowsTheReport ==
    ASSUME NEW report, NEW small
    PROVE  Air!ReportCardShows(report, small) \subseteq Air!ReportPanelShows(report)
  BY DEF Air!ReportCardShows, Air!ReportPanelShows

(* The sidebar has all that the card has, for any document of any kind     *)
(* (cot/CotCard.tsx and CotPanel.tsx, geojson/GeoJsonCard.tsx and          *)
(* GeoJsonPanel.tsx, avreport/ReportCard.tsx and ReportPanel.tsx).         *)
THEOREM TheSidebarHasTheCard == SurfacesSpec => PanelCarriesTheCard
  <1>1. ASSUME NEW events, NEW i \in DOMAIN events
        PROVE  LET shown == Cot!EventSection(events[i], {})
               IN  /\ Cot!CardShows(events)[i] \ {"stream"} \subseteq shown
                   /\ "stream" \in Cot!CardShows(events)[i] => shown \cap Cot!VideoKeys # {}
                   /\ \A key \in Cot!DetailKeys :
                          events[i].detail[key] # "" =>
                              key \in shown \/ (key \in Cot!RouteKeys /\ events[i].geometry = Nothing)
    <2> DEFINE event == events[i]
               shown == Cot!EventSection(event, {})
    <2>1. Cot!CardShows(events)[i] =
              Cot!Naming(event) \cup (IF Len(events) > 1 THEN {}
                                      ELSE Cot!ClassSummary(event) \cup Cot!Degraded(event) \cup Cot!EventDetail(event))
      BY DEF Cot!CardShows
    <2> HIDE DEF event, shown
    <2>2. /\ Cot!Naming(event) \cup Cot!Degraded(event) \cup Cot!EventDetail(event) \subseteq shown
          /\ "stream" \notin Cot!Naming(event) \cup Cot!Degraded(event) \cup Cot!EventDetail(event)
      BY PanelShowsTheEvent DEF shown
    <2>3. /\ Cot!ClassSummary(event) \ {"stream"} \subseteq shown
          /\ "stream" \in Cot!ClassSummary(event) => shown \cap Cot!VideoKeys # {}
      BY PanelShowsTheClass DEF shown
    <2>4. /\ Cot!CardShows(events)[i] \ {"stream"} \subseteq shown
          /\ "stream" \in Cot!CardShows(events)[i] => shown \cap Cot!VideoKeys # {}
      BY <2>1, <2>2, <2>3
    <2>5. \A key \in Cot!DetailKeys :
              event.detail[key] # "" => key \in shown \/ (key \in Cot!RouteKeys /\ event.geometry = Nothing)
      BY PanelShowsTheDetail DEF shown
    <2> QED BY <2>4, <2>5 DEF event, shown
  <1> DEFINE Carried ==
          CASE Kind(post) = "cot" ->
                  LET events == Card(post).events
                  IN  \A i \in DOMAIN events :
                          LET shown == Cot!EventSection(events[i], {})
                          IN  /\ Cot!CardShows(events)[i] \ {"stream"} \subseteq shown
                              /\ "stream" \in Cot!CardShows(events)[i] => shown \cap Cot!VideoKeys # {}
                              /\ \A key \in Cot!DetailKeys :
                                     events[i].detail[key] # "" =>
                                         key \in shown \/ (key \in Cot!RouteKeys /\ events[i].geometry = Nothing)
            [] Kind(post) = "geojson" -> Geo!CardShows(Card(post)) \subseteq Geo!PanelShows(Card(post), {})
            [] Kind(post) = "report"  -> Air!ReportCardShows(Card(post), compact) \subseteq Air!ReportPanelShows(Card(post))
  <1>2. ASSUME SurfacesInv, OpenDetails PROVE Carried
    <2>1. Kind(post) \in {"cot", "geojson", "report"}
      BY <1>2, PostsAssumption DEF OpenDetails, SurfacesInv, PostIsRead, Kind, Kinds
    <2>2. CASE Kind(post) = "cot"
      BY <1>1, <2>2
    <2>3. CASE Kind(post) = "geojson"
      BY <2>3, PanelShowsTheFeatures
    <2>4. CASE Kind(post) = "report"
      BY <2>4, PanelShowsTheReport
    <2> QED BY <2>1, <2>2, <2>3, <2>4
  <1> HIDE DEF Carried
  <1>3. SurfacesSpec => [][OpenDetails => Carried]_surface_vars
    BY <1>2, SurfacesBegin, SurfacesKeep, PTL DEF SurfacesSpec
  <1> QED BY <1>3 DEF PanelCarriesTheCard, Carried

-----------------------------------------------------------------------------
\* The picture a map draws.
\* The colors of the markers there are.
Marks == [at : Places \cup {point.at : point \in Points}, color : Colors]

PictureInv ==
    /\ overlay = [markers |-> overlay.markers, shapes |-> overlay.shapes,
                  ellipse |-> overlay.ellipse, at |-> overlay.at]
    /\ overlay.markers \in Seq(Marks)
    /\ details \subseteq Packages
    /\ lens.zoom \in Zooms \cup {0} /\ moving \in BOOLEAN
    /\ cap \in {SeamZoom, MaxZoom}
    /\ ~moving => cap = GlobalCap(details, lens.box)
    /\ images \subseteq Colors
    /\ icons = IconsOf(overlay) /\ icons \subseteq images

(* The pictures of markers of known colors are of known colors.            *)
LEMMA IconsAreColors ==
    ASSUME NEW o, o.markers \in Seq(Marks)
    PROVE  IconsOf(o) \subseteq Colors
  <1>1. \A i \in DOMAIN o.markers : o.markers[i] \in Marks
    OBVIOUS
  <1>2. \A m \in Marks : m.color \in Colors
    BY DEF Marks
  <1> QED BY <1>1, <1>2 DEF IconsOf

(* A document of one point has one marker, of its color.                   *)
LEMMA OnePointIsMarked ==
    ASSUME NEW point \in Points
    PROVE  LET o == OnePoint(point)
           IN  /\ o = [markers |-> o.markers, shapes |-> o.shapes, ellipse |-> o.ellipse, at |-> o.at]
               /\ o.markers \in Seq(Marks)
               /\ IconsOf(o) = {point.color}
  <1> DEFINE o == OnePoint(point)
             mark == [at |-> point.at, color |-> point.color]
  <1>1. o = [markers |-> <<mark>>, shapes |-> <<>>, ellipse |-> Nothing,
             at |-> IF point.positioned THEN point.at ELSE Nothing]
    BY DEF OnePoint
  <1>2. mark \in Marks
    BY PictureAssumption DEF Marks
  <1> HIDE DEF o, mark
  <1>3. o = [markers |-> o.markers, shapes |-> o.shapes, ellipse |-> o.ellipse, at |-> o.at] /\ o.markers = <<mark>>
    BY <1>1
  <1>4. o.markers \in Seq(Marks)
    BY <1>2, <1>3
  <1>5. IconsOf(o) = {mark.color}
    BY <1>3 DEF IconsOf
  <1> QED BY <1>3, <1>4, <1>5 DEF o, mark

\* The seam that a resting view needs.
SeamDecided ==
    /\ lens.zoom \in Zooms \cup {0} /\ moving \in BOOLEAN
    /\ cap \in {SeamZoom, MaxZoom}
    /\ ~moving => cap = GlobalCap(details, lens.box)

(* Wherever a redraw takes the camera, the seam is decided again.          *)
LEMMA FrameKeepsTheSeam ==
    ASSUME PictureInv, NEW o, FrameCamera(o), details' = details
    PROVE  SeamDecided'
  <1>1. CASE \E box : \E z \in Zooms : Look(box, z)
    <2>0. PICK box : \E z \in Zooms : Look(box, z)
      BY <1>1, Zenon
    <2>1. PICK z \in Zooms : Look(box, z)
      BY <2>0
    <2>2. lens'.zoom = z /\ lens'.box = box /\ cap' = GlobalCap(details, box) /\ moving' = FALSE
      BY <2>1 DEF Look
    <2>3. GlobalCap(details, box) \in {SeamZoom, MaxZoom}
      BY DEF GlobalCap
    <2> QED BY <2>2, <2>3 DEF SeamDecided
  <1>2. CASE UNCHANGED <<lens, cap, moving>>
    BY <1>2 DEF PictureInv, SeamDecided
  <1>3. FrameCamera(o) => (\E box : \E z \in Zooms : Look(box, z)) \/ UNCHANGED <<lens, cap, moving>>
    <2>1. FrameCamera(o) =>
              \/ \E z \in Zooms : Look(FrameBounds(o), z)
              \/ \E z \in Zooms : Look(PointBox(FrameCenter(o)), z)
              \/ UNCHANGED <<lens, cap, moving>>
      BY Zenon DEF FrameCamera
    <2> HIDE DEF Look
    <2> QED BY <2>1
  <1> QED BY <1>1, <1>2, <1>3

(* A document that is shown brings the images of its markers.              *)
LEMMA ShowKeeps ==
    ASSUME PictureInv, NEW o, o.markers \in Seq(Marks),
           o = [markers |-> o.markers, shapes |-> o.shapes, ellipse |-> o.ellipse, at |-> o.at],
           Show(o)
    PROVE  PictureInv'
  <1>1. /\ overlay' = o /\ images' = images \cup IconsOf(o) /\ icons' = IconsOf(o)
        /\ FrameCamera(o) /\ details' = details
    BY DEF Show, AddImages
  <1>2. SeamDecided'
    BY <1>1, FrameKeepsTheSeam
  <1>3. IconsOf(o) \subseteq Colors
    BY IconsAreColors
  <1> QED BY <1>1, <1>2, <1>3 DEF PictureInv, SeamDecided

(* A document changed in one part, or in two, is the rest of it as it was. *)
LEMMA PartsOfADocument ==
    ASSUME NEW o, o = [markers |-> o.markers, shapes |-> o.shapes, ellipse |-> o.ellipse, at |-> o.at], NEW x
    PROVE  /\ [o EXCEPT !.markers = x, !.ellipse = Nothing]
                  = [markers |-> x, shapes |-> o.shapes, ellipse |-> Nothing, at |-> o.at]
           /\ [o EXCEPT !.ellipse = x]
                  = [markers |-> o.markers, shapes |-> o.shapes, ellipse |-> x, at |-> o.at]
           /\ [o EXCEPT !.shapes = x]
                  = [markers |-> o.markers, shapes |-> x, ellipse |-> o.ellipse, at |-> o.at]
  <1>1. PICK m, s, e, a : o = [markers |-> m, shapes |-> s, ellipse |-> e, at |-> a]
    OBVIOUS
  <1>2. o.markers = m /\ o.shapes = s /\ o.ellipse = e /\ o.at = a
    BY <1>1
  <1>3. [o EXCEPT !.markers = x, !.ellipse = Nothing]
            = [markers |-> x, shapes |-> s, ellipse |-> Nothing, at |-> a]
    <2> DEFINE changed == [o EXCEPT !.markers = x, !.ellipse = Nothing]
               whole == [markers |-> x, shapes |-> s, ellipse |-> Nothing, at |-> a]
    <2>1. changed = [[o EXCEPT !.markers = x] EXCEPT !.ellipse = Nothing]
      OBVIOUS
    <2>2. [o EXCEPT !.markers = x] = [markers |-> x, shapes |-> s, ellipse |-> e, at |-> a]
      BY <1>1
    <2>3. [[markers |-> x, shapes |-> s, ellipse |-> e, at |-> a] EXCEPT !.ellipse = Nothing] = whole
      OBVIOUS
    <2> QED BY <2>1, <2>2, <2>3
  <1>4. [o EXCEPT !.ellipse = x] = [markers |-> m, shapes |-> s, ellipse |-> x, at |-> a]
    BY <1>1
  <1>5. [o EXCEPT !.shapes = x] = [markers |-> m, shapes |-> x, ellipse |-> e, at |-> a]
    BY <1>1
  <1> QED BY <1>2, <1>3, <1>4, <1>5

(* It holds of a map that opens on a point.                                *)
LEMMA PictureBegins == PictureInit => PictureInv
  <1> SUFFICES ASSUME PictureInit PROVE PictureInv
    OBVIOUS
  <1>1. PICK point \in Points :
            /\ overlay = OnePoint(point)
            /\ details \in SUBSET Packages
            /\ lens = [box |-> PointBox(OpeningAnchor(overlay)), zoom |-> 0]
            /\ cap = GlobalCap(details, lens.box) /\ moving = FALSE
            /\ images = {point.color} /\ icons = {point.color}
    BY DEF PictureInit
  <1>2. GlobalCap(details, lens.box) \in {SeamZoom, MaxZoom}
    BY DEF GlobalCap
  <1> QED BY <1>1, <1>2, OnePointIsMarked, PictureAssumption DEF PictureInv

(* Every step keeps it.                                                    *)
LEMMA PictureKeeps == PictureInv /\ [PictureNext]_picture_vars => PictureInv'
  <1> SUFFICES ASSUME PictureInv, [PictureNext]_picture_vars PROVE PictureInv'
    OBVIOUS
  <1>0. /\ overlay = [markers |-> overlay.markers, shapes |-> overlay.shapes,
                      ellipse |-> overlay.ellipse, at |-> overlay.at]
        /\ overlay.markers \in Seq(Marks)
    BY DEF PictureInv
  <1>1. ASSUME NEW p \in Places, NEW c \in Colors, AddMarker(p, c) PROVE PictureInv'
    <2> DEFINE mark == [at |-> p, color |-> c]
               o == [markers |-> Append(overlay.markers, mark), shapes |-> overlay.shapes,
                     ellipse |-> Nothing, at |-> overlay.at]
    <2>1. mark \in Marks
      BY DEF Marks
    <2>2. Show([overlay EXCEPT !.markers = Append(@, mark), !.ellipse = Nothing])
      BY <1>1 DEF AddMarker
    <2>3. [overlay EXCEPT !.markers = Append(@, mark), !.ellipse = Nothing] = o
      BY <1>0, PartsOfADocument
    <2>4. Append(overlay.markers, mark) \in Seq(Marks)
      BY <1>0, <2>1
    <2> HIDE DEF mark
    <2> QED BY <2>2, <2>3, <2>4, ShowKeeps
  <1>2. ASSUME NEW point \in Points, AnotherDocument(point) PROVE PictureInv'
    BY <1>2, OnePointIsMarked, ShowKeeps DEF AnotherDocument
  <1>3. ASSUME NEW size, AddEllipse(size) PROVE PictureInv'
    <2> DEFINE ellipse == [major |-> size, minor |-> 1]
               o == [markers |-> overlay.markers, shapes |-> overlay.shapes, ellipse |-> ellipse, at |-> overlay.at]
    <2>1. Show([overlay EXCEPT !.ellipse = ellipse])
      BY <1>3 DEF AddEllipse
    <2> HIDE DEF ellipse
    <2>2. [overlay EXCEPT !.ellipse = ellipse] = o
      BY <1>0, PartsOfADocument
    <2> QED BY <1>0, <2>1, <2>2, ShowKeeps
  <1>4. ASSUME NEW s, AddShape(s) PROVE PictureInv'
    <2> DEFINE o == [markers |-> overlay.markers, shapes |-> Append(overlay.shapes, s),
                     ellipse |-> overlay.ellipse, at |-> overlay.at]
    <2>1. Show([overlay EXCEPT !.shapes = Append(@, s)])
      BY <1>4 DEF AddShape
    <2>2. [overlay EXCEPT !.shapes = Append(@, s)] = o
      BY <1>0, PartsOfADocument
    <2> QED BY <1>0, <2>1, <2>2, ShowKeeps
  <1>5. CASE Reset
    BY <1>0, <1>5, ShowKeeps DEF Reset
  <1>6. ASSUME NEW box, NEW z \in Zooms, Pan(box, z) PROVE PictureInv'
    <2>1. /\ lens' = [box |-> box, zoom |-> z] /\ moving' = TRUE
          /\ UNCHANGED <<overlay, details, cap, images, icons>>
      BY <1>6 DEF Pan
    <2> QED BY <2>1 DEF PictureInv, IconsOf
  <1>7. CASE MoveEnd
    <2>1. GlobalCap(details, lens.box) \in {SeamZoom, MaxZoom}
      BY DEF GlobalCap
    <2> QED BY <1>7, <2>1 DEF MoveEnd, PictureInv, IconsOf
  <1>8. CASE UNCHANGED picture_vars
    BY <1>8 DEF PictureInv, picture_vars, IconsOf
  <1> QED BY <1>1, <1>2, <1>3, <1>4, <1>5, <1>6, <1>7, <1>8 DEF PictureNext

(* It always holds.                                                        *)
LEMMA PictureInvariance == PictureSpec => []PictureInv
  BY PictureBegins, PictureKeeps, PTL DEF PictureSpec

(* What a tier draws is of the layers that are in reach of the zoom.       *)
LEMMA DrawnConcerns ==
    ASSUME NEW zoom \in 0 .. MaxZoom - 1, NEW reach \in {SeamZoom, MaxZoom}
    PROVE  /\ zoom < reach => GroundConcerns \subseteq DrawnAt(GlobalLayers(reach), zoom)
           /\ zoom < SeamZoom => DrawnAt(DetailLayers, zoom) = {}
           /\ zoom >= SeamZoom => GroundConcerns \subseteq DrawnAt(DetailLayers, zoom)
           /\ reach = SeamZoom /\ zoom >= SeamZoom => DrawnAt(GlobalLayers(reach), zoom) = {"land"}
           /\ "land" \notin DrawnAt(DetailLayers, zoom)
  <1>1. SeamZoom = 10 /\ MaxZoom = 17 /\ Uncapped = 99 /\ zoom \in Nat
    BY DEF SeamZoom, MaxZoom, Uncapped
  <1>2. ASSUME NEW layers, NEW l \in layers, l.min <= zoom, zoom < l.max
        PROVE  l.concern \in DrawnAt(layers, zoom)
    BY <1>2 DEF DrawnAt
  <1>3. ASSUME zoom < reach PROVE GroundConcerns \subseteq DrawnAt(GlobalLayers(reach), zoom)
    <2>1. \A c \in GroundConcerns : Layer(c, 0, reach) \in GlobalLayers(reach)
      BY DEF GroundConcerns, GlobalLayers, GroundLayers
    <2>2. \A c : Layer(c, 0, reach).concern = c /\ Layer(c, 0, reach).min = 0 /\ Layer(c, 0, reach).max = reach
      BY DEF Layer
    <2> QED BY <1>1, <1>2, <1>3, <2>1, <2>2
  <1>4. ASSUME NEW l \in DetailLayers
        PROVE  l.min \in Nat /\ l.min >= SeamZoom /\ l.concern # "land"
    <2>1. \A c, n, m : /\ Layer(c, n, m).concern = c /\ Layer(c, n, m).min = n
      BY DEF Layer
    <2>2. \/ \E c \in {"water", "waterway", "boundary", "rail", "runway", "road"} : l = Layer(c, SeamZoom, Uncapped)
          \/ \E c \in {"water name", "aerodrome", "place"} : l = Layer(c, SeamZoom, Uncapped)
          \/ l = Layer("road name", 12, Uncapped)
      BY DEF DetailLayers, DetailGround, DetailNames
    <2>3. \E c, n : c # "land" /\ n \in {10, 12} /\ l = Layer(c, n, Uncapped)
      BY <1>1, <2>2
    <2>4. l.min \in {10, 12} /\ l.concern # "land"
      BY <2>1, <2>3
    <2> QED BY <1>1, <2>4
  <1>5. zoom < SeamZoom => DrawnAt(DetailLayers, zoom) = {}
    <2>1. zoom < SeamZoom => \A l \in DetailLayers : ~ (l.min <= zoom)
      BY <1>1, <1>4
    <2> QED BY <2>1 DEF DrawnAt
  <1>6. ASSUME zoom >= SeamZoom PROVE GroundConcerns \subseteq DrawnAt(DetailLayers, zoom)
    <2>1. \A c \in GroundConcerns : Layer(c, SeamZoom, Uncapped) \in DetailLayers
      BY DEF GroundConcerns, DetailLayers, DetailGround
    <2>2. \A c : /\ Layer(c, SeamZoom, Uncapped).concern = c
                 /\ Layer(c, SeamZoom, Uncapped).min = SeamZoom /\ Layer(c, SeamZoom, Uncapped).max = Uncapped
      BY DEF Layer
    <2> QED BY <1>1, <1>2, <1>6, <2>1, <2>2
  <1>7. ASSUME reach = SeamZoom, zoom >= SeamZoom PROVE DrawnAt(GlobalLayers(reach), zoom) = {"land"}
    <2>1. \A l \in GlobalLayers(reach) : l = Layer("land", 0, Uncapped) \/ l.max \in {6, reach}
      BY DEF GlobalLayers, GroundLayers, NameLayers, Layer
    <2>2. Layer("land", 0, Uncapped) \in GlobalLayers(reach)
      BY DEF GlobalLayers, GroundLayers
    <2>3. LET land == Layer("land", 0, Uncapped)
          IN  land.concern = "land" /\ land.min = 0 /\ land.max = Uncapped
      BY DEF Layer
    <2>4. \A l \in GlobalLayers(reach) : l.min <= zoom /\ zoom < l.max <=> l = Layer("land", 0, Uncapped)
      BY <1>1, <1>7, <2>1, <2>3
    <2> QED BY <2>2, <2>3, <2>4 DEF DrawnAt
  <1>8. "land" \notin DrawnAt(DetailLayers, zoom)
    BY <1>4 DEF DrawnAt
  <1> QED BY <1>3, <1>5, <1>6, <1>7, <1>8

(* Where a package reaches the view nothing is drawn by both tiers, and    *)
(* elsewhere nothing is left out, for any packages and any movement of the *)
(* camera: wherever it comes to rest, and below the seam while it moves,   *)
(* as the details draw nothing there and either reach has all the ground   *)
(* (map/maplibre.ts, map/use_map_instance.ts).                             *)
THEOREM NoSeamShows == PictureSpec => []SeamIsWhole
  <1>1. PictureInv => PictureTypeOK
    <2> SUFFICES ASSUME PictureInv PROVE PictureTypeOK
      OBVIOUS
    <2>1. icons \subseteq Colors
      BY IconsAreColors DEF PictureInv
    <2> QED BY <2>1 DEF PictureInv, PictureTypeOK
  <1>2. PictureInv => SeamIsWhole
    <2> SUFFICES ASSUME PictureInv, lens.zoom < MaxZoom, moving => lens.zoom < SeamZoom
                 PROVE  LET global == GlobalAt[cap][lens.zoom]
                            detail == DetailAt[lens.zoom]
                        IN  IF \E d \in details : Intersects(lens.box, d.box)
                            THEN global \cap detail = {} /\ GroundConcerns \subseteq global \cup detail
                            ELSE GroundConcerns \subseteq global
      BY <1>1 DEF SeamIsWhole
    <2>1. lens.zoom \in 0 .. MaxZoom - 1 /\ lens.zoom \in DrawnZooms
      BY PictureAssumption DEF PictureInv, DrawnZooms, MaxZoom
    <2>2. cap \in {SeamZoom, MaxZoom}
      BY DEF PictureInv
    <2>3. GlobalAt[cap][lens.zoom] = DrawnAt(GlobalLayers(cap), lens.zoom)
      BY <2>1, <2>2 DEF GlobalAt
    <2>4. DetailAt[lens.zoom] = DrawnAt(DetailLayers, lens.zoom)
      BY <2>1 DEF DetailAt
    <2>5. ~moving => cap = IF \E d \in details : Intersects(lens.box, d.box) THEN SeamZoom ELSE MaxZoom
      BY DEF PictureInv, GlobalCap, CoveredBy
    <2>6. lens.zoom < MaxZoom /\ SeamZoom = 10 /\ MaxZoom = 17
      BY DEF SeamZoom, MaxZoom
    <2>7. CASE lens.zoom < SeamZoom
      <3>1. DrawnAt(DetailLayers, lens.zoom) = {} /\ GroundConcerns \subseteq DrawnAt(GlobalLayers(cap), lens.zoom)
        BY <2>1, <2>2, <2>6, <2>7, DrawnConcerns
      <3> QED BY <2>3, <2>4, <3>1
    <2>8. CASE ~moving
      BY <2>1, <2>2, <2>3, <2>4, <2>5, <2>6, <2>8, DrawnConcerns
    <2> QED BY <2>7, <2>8
  <1> QED BY <1>2, PictureInvariance, PTL

(* No marker is drawn as nothing: every image the pins name is registered, *)
(* though a map outlives its document and each document brings its own     *)
(* colors (addMarkerImages, map/paint.ts).                                 *)
THEOREM PinsHaveImages == PictureSpec => [](icons = IconsOf(overlay) /\ icons \subseteq images)
  <1>1. PictureInv => icons = IconsOf(overlay) /\ icons \subseteq images
    BY DEF PictureInv
  <1> QED BY <1>1, PictureInvariance, PTL

-----------------------------------------------------------------------------
\* Links to a map, and the room around a fit.
(* The greater and the lesser of two numbers.                              *)
LEMMA MaxOfTwo == \A a, b \in Int : Max({a, b}) = IF a >= b THEN a ELSE b
  <1> SUFFICES ASSUME NEW a \in Int, NEW b \in Int PROVE Max({a, b}) = IF a >= b THEN a ELSE b
    OBVIOUS
  <1> DEFINE m == IF a >= b THEN a ELSE b
  <1>1. m \in {a, b} /\ \A y \in {a, b} : m >= y
    OBVIOUS
  <1>2. \A n \in {a, b} : (\A y \in {a, b} : n >= y) => n = m
    OBVIOUS
  <1> HIDE DEF m
  <1> QED BY <1>1, <1>2 DEF Max, m

(* The lesser likewise.                                                    *)
LEMMA MinOfTwo == \A a, b \in Int : Min({a, b}) = IF a <= b THEN a ELSE b
  <1> SUFFICES ASSUME NEW a \in Int, NEW b \in Int PROVE Min({a, b}) = IF a <= b THEN a ELSE b
    OBVIOUS
  <1> DEFINE m == IF a <= b THEN a ELSE b
  <1>1. m \in {a, b} /\ \A y \in {a, b} : m <= y
    OBVIOUS
  <1>2. \A n \in {a, b} : (\A y \in {a, b} : n <= y) => n = m
    OBVIOUS
  <1> HIDE DEF m
  <1> QED BY <1>1, <1>2 DEF Min, m

(* Rounding to tens moves a number by no more than five.                   *)
LEMMA RoundingIsClose ==
    ASSUME NEW x \in Int
    PROVE  /\ RoundTo(x, 10) \in Int
           /\ RoundTo(x, 10) * 10 - x \in -5 .. 5
           /\ \A y \in Int : x <= 10 * y => RoundTo(x, 10) <= y
           /\ \A y \in Int : 10 * y <= x => y <= RoundTo(x, 10)
  BY SMT DEF RoundTo

(* Every camera's link reads back, to the same place up to what five and   *)
(* two places keep, however near the pole it looked and however many turns *)
(* it had drifted (hashForCamera, cameraFromHash, map/camera.ts).          *)
THEOREM LinksReadBack ==
    ASSUME NEW zoom \in 0 .. MaxZoom * 1000, NEW lat \in Int, NEW lon \in Int
    PROVE  LET back == CameraFromHash(HashForCamera([zoom |-> zoom, lat |-> lat, lon |-> lon]))
           IN  /\ back # Nothing
               /\ back.zoom - zoom \in -5 .. 5
               /\ lat \in -LatLimit * 10 .. LatLimit * 10 => back.lat - lat \in -5 .. 5
               /\ back.lon - WrapLongitude(lon) \in -5 .. 5
  <1> DEFINE clamped == Max({-(LatLimit * 10), Min({LatLimit * 10, lat})})
             wrapped == WrapLongitude(lon)
             hash == [zoom |-> RoundTo(zoom, 10), lat |-> RoundTo(clamped, 10), lon |-> RoundTo(wrapped, 10)]
  <1>1. HashForCamera([zoom |-> zoom, lat |-> lat, lon |-> lon]) = hash
    BY DEF HashForCamera
  <1>2. MaxZoom \in Nat /\ LatLimit \in Nat /\ MercatorMicro \in Nat /\ Micro \in Nat
    BY SMT DEF MaxZoom, LatLimit, MercatorMicro, Micro
  <1>3. /\ clamped \in Int /\ -(LatLimit * 10) <= clamped /\ clamped <= LatLimit * 10
        /\ lat \in -LatLimit * 10 .. LatLimit * 10 => clamped = lat
    <2>1. LatLimit * 10 \in Nat /\ -(LatLimit * 10) \in Int
      BY <1>2
    <2>2. Min({LatLimit * 10, lat}) = IF LatLimit * 10 <= lat THEN LatLimit * 10 ELSE lat
      BY <2>1, MinOfTwo
    <2>3. Min({LatLimit * 10, lat}) \in Int
      BY <2>1, <2>2
    <2>4. clamped = IF -(LatLimit * 10) >= Min({LatLimit * 10, lat}) THEN -(LatLimit * 10) ELSE Min({LatLimit * 10, lat})
      BY <2>1, <2>3, MaxOfTwo
    <2> HIDE DEF clamped
    <2> QED BY <2>1, <2>2, <2>4
  <1>4. wrapped \in Int /\ -(180 * Micro) <= wrapped /\ wrapped <= 180 * Micro
    BY SMT DEF WrapLongitude, Micro
  <1> HIDE DEF clamped, wrapped
  <1>5. zoom \in Nat /\ zoom <= MaxZoom * 1000
    BY <1>2
  <1>6. /\ RoundTo(zoom, 10) \in 0 .. MaxZoom * 100 /\ RoundTo(zoom, 10) * 10 - zoom \in -5 .. 5
        /\ RoundTo(clamped, 10) * 10 \in -MercatorMicro .. MercatorMicro
        /\ RoundTo(clamped, 10) * 10 - clamped \in -5 .. 5
        /\ RoundTo(wrapped, 10) * 10 \in -180 * Micro .. 180 * Micro
        /\ RoundTo(wrapped, 10) * 10 - wrapped \in -5 .. 5
    <2>1. /\ RoundTo(zoom, 10) \in Int /\ RoundTo(zoom, 10) * 10 - zoom \in -5 .. 5
          /\ RoundTo(zoom, 10) <= MaxZoom * 100 /\ 0 <= RoundTo(zoom, 10)
      <3>1. zoom <= 10 * (MaxZoom * 100) /\ 10 * 0 <= zoom /\ MaxZoom * 100 \in Int
        BY <1>2, <1>5
      <3> QED BY <1>5, <3>1, RoundingIsClose
    <2>2. /\ RoundTo(clamped, 10) \in Int /\ RoundTo(clamped, 10) * 10 - clamped \in -5 .. 5
          /\ RoundTo(clamped, 10) <= LatLimit /\ -LatLimit <= RoundTo(clamped, 10)
      <3>1. clamped <= 10 * LatLimit /\ 10 * (-LatLimit) <= clamped /\ LatLimit \in Int /\ -LatLimit \in Int
        BY <1>2, <1>3
      <3> QED BY <1>3, <3>1, RoundingIsClose
    <2>3. /\ RoundTo(wrapped, 10) \in Int /\ RoundTo(wrapped, 10) * 10 - wrapped \in -5 .. 5
          /\ RoundTo(wrapped, 10) <= 18 * Micro /\ -(18 * Micro) <= RoundTo(wrapped, 10)
      <3>1. /\ wrapped <= 10 * (18 * Micro) /\ 10 * (-(18 * Micro)) <= wrapped
            /\ 18 * Micro \in Int /\ -(18 * Micro) \in Int
        BY <1>2, <1>4
      <3> QED BY <1>4, <3>1, RoundingIsClose
    <2>4. LatLimit * 10 <= MercatorMicro
      BY SMT DEF LatLimit, MercatorMicro
    <2> QED BY <1>2, <2>1, <2>2, <2>3, <2>4
  <1>7. CameraFromHash(hash) =
            [zoom |-> RoundTo(zoom, 10) * 10, lat |-> RoundTo(clamped, 10) * 10, lon |-> RoundTo(wrapped, 10) * 10]
    BY <1>6 DEF CameraFromHash
  <1>8. CameraFromHash(hash) # Nothing
    BY <1>7 DEF Nothing
  <1> QED BY <1>1, <1>3, <1>6, <1>7, <1>8 DEF wrapped

(* A fit leaves half of each side of any canvas to the map, with the       *)
(* controls and without (fitPadding, map/span.ts).                       *)
THEOREM PaddingLeavesHalf ==
    ASSUME NEW width \in Nat, NEW height \in Nat, NEW chrome \in BOOLEAN
    PROVE  LET pad == FitPadding(width, height, chrome)
           IN  pad.left + pad.right <= width \div 2 /\ pad.top + pad.bottom <= height \div 2
  <1>1. ASSUME NEW size \in Nat, NEW pair \in {<<26, 52>>, <<48, 46>>, <<24, 24>>}
        PROVE  WithinAxis(pair[1], pair[2], size)[1] + WithinAxis(pair[1], pair[2], size)[2] <= size \div 2
    <2> DEFINE total == pair[1] + pair[2]
               budget == size \div 2
    <2>1. Max({0, size}) = size
      BY MaxOfTwo
    <2>2. budget \in Nat
      OBVIOUS
    <2> HIDE DEF budget
    <2>3. total > 0 /\ total \in Nat
      OBVIOUS
    <2>4. total > budget => (pair[1] * budget) \div total + (pair[2] * budget) \div total <= budget
      <3>1. CASE pair = <<26, 52>>
        BY <2>2, <3>1
      <3>2. CASE pair = <<48, 46>>
        BY <2>2, <3>2
      <3>3. CASE pair = <<24, 24>>
        BY <2>2, <3>3
      <3> QED BY <3>1, <3>2, <3>3
    <2>5. WithinAxis(pair[1], pair[2], size)
              = IF total <= budget \/ total = 0 THEN <<pair[1], pair[2]>>
                ELSE <<(pair[1] * budget) \div total, (pair[2] * budget) \div total>>
      BY <2>1, Zenon DEF WithinAxis, budget
    <2>6. pair[1] \in Nat /\ pair[2] \in Nat
      OBVIOUS
    <2> QED BY <2>2, <2>3, <2>4, <2>5, <2>6 DEF budget
  <1> QED BY <1>1 DEF FitPadding
=============================================================================
