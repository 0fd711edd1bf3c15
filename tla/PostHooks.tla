----------------------------- MODULE PostHooks -----------------------------
(***************************************************************************)
(* The life of one post under the two message hooks of server/hooks.go.    *)
(* MessageWillBePosted runs the three stampers (Cursor on Target, GeoJSON, *)
(* aviation reports) and then the decoration, each behind a recover of its *)
(* own; MessageWillBeUpdated keeps the fields this plugin owns through     *)
(* every edit; and two readers, the post body of the webapp and the map    *)
(* page of mappost.go, decide again whether the stamp may still be drawn.  *)
(*                                                                         *)
(* A message is its shape: which source or tokens the scanners find in it, *)
(* and whether the parser of that format can read the source.  The value   *)
(* of a plugin-owned prop is where it came from.  Whether a stamp fits the *)
(* props budget, whether a rewritten message fits a post, whether the file *)
(* store answers and whether a stage panics are choices of the step.  A    *)
(* stage is one step and reads one configuration; the configuration may    *)
(* change between stages, as it may between two reads of getConfiguration. *)
(***************************************************************************)
EXTENDS Naturals

CONSTANTS
    Settings,    \* the configurations considered: each a set of switches
    Messages,    \* the messages considered
    Nil,         \* Go's nil, where a post could be
    MaxChanges,  \* bound on the changes of the configuration
    MaxEdits     \* bound on the edits of the post

Switch == {"cot", "cotFile", "geojson", "geojsonFile", "geojsonUnlabeled",
           "avreportCard", "avreportTable", "avreportKind",
           "locationInline", "airportRoute", "airportTable"}

\* Fences by their label; bare sources; a report on one line; tokens.
Fence  == {"cot fence", "xml fence", "geojson fence", "json fence", "report fence"}
Source == Fence \cup {"event", "object", "report", "restriction"}
Tokens == {"coordinate", "airfield", "route", "one-line report", "one-line restriction"}
Shape  == Source \cup Tokens \cup {"mixed", "prose"}

\* Only a source can be found and then refuse to be read.
Message == {m \in [shape : Shape, reads : BOOLEAN] : m.shape \in Source \/ m.reads}

NoFile == [suffix |-> "none", own |-> FALSE, reads |-> FALSE]
File   == [suffix : {".cot", ".geojson", ".json"}, own : BOOLEAN, reads : BOOLEAN]

ASSUME SettingsAssumption == Settings \subseteq SUBSET Switch
ASSUME MessagesAssumption == Messages \subseteq Message
ASSUME BoundsAssumption   == MaxChanges \in Nat /\ MaxEdits \in Nat

Document == {"cot", "geojson", "avreport"}           \* formats with a stamper
Key      == Document \cup {"airfields", "location"}  \* a plugin-owned type and its prop
Type     == Key \cup {"", "other", "system"}         \* other: another integration's
Blob     == {"none", "forged", "message", "file"}    \* what a plugin-owned prop was made from
Text     == {"written", "linked", "expanded", "edited"}
Post     == [type : Type, blobs : [Key -> Blob], text : Text]

ASSUME NilAssumption == Nil \notin Post

VARIABLES
    config,    \* the switches that are on
    message,   \* what the author wrote
    file,      \* the sole attachment, or NoFile
    attached,  \* it still is attached
    arrived,   \* the post as it reached the hook
    pc,        \* the stage of the hook, or "stored"
    post,      \* decoratePost's post; once stored, the stored post
    result,    \* decoratePost's result
    told,      \* formats whose refusal the author was told of
    panicked,  \* ghost: a stage panicked
    changes, edits  \* for the bounds

input == <<message, file, arrived>>
vars == <<config, input, attached, pc, post, result, told, panicked, changes, edits>>

Stages == {"cot", "geojson", "avreport", "decorate"}

NoBlobs == [k \in Key |-> "none"]

On(s) == s \in config
-----------------------------------------------------------------------------
\* Any author may send any type, and any value under any key.
Arriving ==
    [type : Type, blobs : {NoBlobs, [k \in Key |-> "forged"]}, text : {"written"}]

Init ==
    /\ config \in Settings
    /\ message \in Messages
    /\ file \in File \cup {NoFile}
    /\ attached = (file # NoFile)
    /\ arrived \in Arriving
    /\ pc = "cot"
    /\ post = arrived
    /\ result = Nil
    /\ told = {}
    /\ panicked = FALSE
    /\ changes = 0 /\ edits = 0

-----------------------------------------------------------------------------
(* stripStampedTypes: the clone, or nil when there is nothing to strip.    *)
StripStampedTypes(p) ==
    IF p.type \in Key \/ p.blobs # NoBlobs
    THEN [p EXCEPT !.type = IF @ \in Key THEN "" ELSE @, !.blobs = NoBlobs]
    ELSE Nil

CotEnabled        == On("cot")
CotFilesEnabled   == On("cot") /\ On("cotFile")
GeoJSONEnabled    == On("geojson")
GeoJSONFiles      == On("geojson") /\ On("geojsonFile")
GeoJSONUnlabeled  == On("geojson") /\ On("geojsonUnlabeled")
AvReportRenders   == On("avreportCard") \/ On("avreportTable")

Enabled(f) ==
    CASE f = "cot"      -> CotEnabled
      [] f = "geojson"  -> GeoJSONEnabled
      [] f = "avreport" -> AvReportRenders

GeoJSONInMessage ==
    \/ message.shape = "geojson fence"
    \/ GeoJSONUnlabeled /\ message.shape \in {"json fence", "object"}

AvReportInMessage == message.shape \in {"report fence", "report", "restriction"}

AvReportSurface ==
    IF message.shape = "report fence" THEN On("avreportCard") ELSE AvReportRenders

\* The fence whose label names the format, which is what earns an answer.
Labeled(f) ==
    CASE f = "cot"      -> message.shape = "cot fence"
      [] f = "geojson"  -> message.shape = "geojson fence"
      [] f = "avreport" -> message.shape = "report fence"

MessageShowsNothing == FALSE

MessageShowsGeoJSON ==
    GeoJSONEnabled /\ GeoJSONInMessage /\ (Labeled("geojson") \/ message.reads)

MessageShowsAvReport ==
    /\ AvReportInMessage /\ AvReportSurface
    /\ IF message.reads THEN On("avreportKind") ELSE Labeled("avreport")

CotFileSource ==
    /\ CotFilesEnabled /\ ~MessageShowsGeoJSON /\ ~MessageShowsAvReport
    /\ file.own /\ file.suffix = ".cot"

GeoJSONFileSource ==
    /\ GeoJSONFiles /\ ~MessageShowsAvReport
    /\ file.own
    /\ \/ file.suffix = ".geojson"
       \/ GeoJSONUnlabeled /\ file.suffix = ".json"

SingleLineRestriction == On("avreportCard") /\ message.shape = "one-line restriction"

\* The source a stamper finds: the message before the file.
InMessage(f) ==
    CASE f = "cot"      -> message.shape \in {"cot fence", "xml fence", "event"}
      [] f = "geojson"  -> GeoJSONInMessage
      [] f = "avreport" -> (AvReportInMessage \/ SingleLineRestriction) /\ AvReportSurface

InFile(f) ==
    /\ ~InMessage(f)
    /\ CASE f = "cot"      -> CotFileSource
         [] f = "geojson"  -> GeoJSONFileSource
         [] f = "avreport" -> FALSE

Reads(f) == IF InMessage(f) THEN message.reads ELSE file.reads

Wanted(f) == f = "avreport" => On("avreportKind")

(* commitStamped, on the rung that fits.                                   *)
Commit(p, k, blob) == [p EXCEPT !.type = k, !.blobs[k] = blob]

(* reportCotRefusal and its two siblings.                                  *)
Tell(f) == IF InMessage(f) /\ Labeled(f) THEN {f} ELSE {}

\* A bare report becomes a table before it becomes a card, except that a
\* restriction, which the card can draw, prefers the card.
PrefersTable(f) ==
    /\ f = "avreport" /\ On("avreportTable")
    /\ \/ message.shape = "report"
       \/ message.shape = "restriction" /\ ~On("avreportCard")

HasCard(f) == f = "avreport" => On("avreportCard")

(* recognizeCot, recognizeGeoJSON and recognizeAvReport: what they may     *)
(* answer of p, and whom they tell.                                        *)
Recognize(f, p) ==
    LET refused == {[ok |-> FALSE, post |-> Nil, told |-> Tell(f)]}
        silent  == {[ok |-> FALSE, post |-> Nil, told |-> {}]}
        stamped == {[ok |-> TRUE, told |-> {},
                     post |-> Commit(p, f, IF InMessage(f) THEN "message" ELSE "file")]}
        table   == {[ok |-> TRUE, told |-> {}, post |-> [p EXCEPT !.text = "expanded"]]}
        card    == IF HasCard(f) THEN stamped \cup refused ELSE silent
    IN  CASE ~InMessage(f) /\ ~InFile(f) -> silent
          [] InMessage(f) /\ ~Reads(f)   -> refused
          [] InFile(f) /\ ~Reads(f)      -> silent
          [] InFile(f) /\ Reads(f)       -> card \cup silent  \* the store may not answer
          [] InMessage(f) /\ Reads(f)    ->
                IF ~Wanted(f) THEN silent
                ELSE IF PrefersTable(f) THEN table \cup card ELSE card

Stampable(p) == p.type = ""

After(f) == CASE f = "cot" -> "geojson" [] f = "geojson" -> "avreport" [] f = "avreport" -> "decorate"

(* The stripped post, when there is one, is the post from here on.         *)
CarryOn(f, stripped) ==
    /\ pc' = After(f)
    /\ post' = IF stripped # Nil THEN stripped ELSE post
    /\ result' = IF stripped # Nil THEN stripped ELSE result

(* decoratePost up to decorateMessage: one runStamper.                     *)
RunStamper(f) ==
    LET stripped == StripStampedTypes(post)
        p == IF stripped # Nil THEN stripped ELSE post
    IN  /\ pc = f
        /\ \/ /\ ~(Enabled(f) /\ Stampable(p))
              /\ CarryOn(f, stripped)
              /\ UNCHANGED <<told, panicked>>
           \/ /\ Enabled(f) /\ Stampable(p)
              /\ \E answer \in Recognize(f, p) :
                    /\ told' = told \cup answer.told
                    /\ \/ /\ answer.ok
                          /\ pc' = "stored" /\ post' = answer.post /\ UNCHANGED result
                       \/ ~answer.ok /\ CarryOn(f, stripped)
              /\ UNCHANGED panicked
           \/ /\ panicked' = TRUE  \* recovered
              /\ CarryOn(f, stripped)
              /\ UNCHANGED told
        /\ UNCHANGED <<config, input, attached, changes, edits>>

-----------------------------------------------------------------------------
(* stampStandalonePost, which measures nothing.                            *)
StampStandalonePost(p) == Commit(p, "location", "message")

(* stampDecoratedPost: what the linked post p may become.                  *)
StampDecoratedPost(p) ==
    IF ~Stampable(p) THEN {p}
    ELSE IF message.shape = "coordinate" /\ On("locationInline") THEN {StampStandalonePost(p)}
    ELSE IF message.shape \in {"airfield", "route"} /\ On("airportRoute")
         THEN {p, Commit(p, "airfields", "message")}  \* over the budget, or not
    ELSE {p}

\* A source may stand beside tokens; a report is one while its kind is on.
HasTokens ==
    /\ message.shape # "prose"
    /\ message.shape \in {"one-line report", "one-line restriction"} => On("avreportKind")

\* StandaloneExpansion, for a message that is nothing but one token.
Expands ==
    \/ message.shape = "airfield" /\ On("airportTable")
    \/ message.shape \in {"one-line report", "one-line restriction"} /\ On("avreportTable")

(* decorateMessage: a rewritten post, or nil for no token, a system post,  *)
(* a rewrite too long to post, or a panic.                                 *)
DecorateMessage(p) ==
    LET linked   == StampDecoratedPost([p EXCEPT !.text = "linked"])
        expanded == {[p EXCEPT !.text = "expanded"]}
    IN  IF ~HasTokens \/ p.type = "system" THEN {Nil}
        ELSE {Nil} \cup linked \cup (IF Expands THEN expanded ELSE {})

DecoratedOnly(decorated) == decorated

(* decoratePost's end: the strip is handed back when decoration is nil.    *)
Answer(decorated) == IF decorated # Nil THEN decorated ELSE result

\* nil is "allow without modification": the server stores what arrived.
Stored(answer) == IF answer = Nil THEN arrived ELSE answer

Decorate ==
    /\ pc = "decorate"
    /\ pc' = "stored"
    /\ \E decorated \in DecorateMessage(post) : post' = Stored(Answer(decorated))
    /\ UNCHANGED <<config, input, attached, result, told, panicked, changes, edits>>

-----------------------------------------------------------------------------
(* keepPluginOwnedFields.                                                  *)
KeptType(old, new) ==
    IF new.type # old.type /\ (new.type \in Key \/ old.type \in Key) THEN old.type ELSE new.type

KeptIfSet(was, is) ==
    CASE was = "none" /\ is # "none" -> "none"
      [] was # "none" /\ is # "none" /\ was # is -> was
      [] OTHER -> is

KeptBlob(was, is) ==
    CASE was = "none" /\ is # "none" -> "none"
      [] was # "none" /\ (is = "none" \/ was # is) -> was
      [] OTHER -> is

KeepPluginOwnedFields(new, old) ==
    [new EXCEPT !.type = KeptType(old, new),
                !.blobs = [k \in Key |-> KeptBlob(old.blobs[k], new.blobs[k])]]

\* What an edit may ask for: any type, any value of any one prop, and the
\* message as it was or another.
Proposed ==
    {[type |-> t, blobs |-> [post.blobs EXCEPT ![k] = b], text |-> x] :
        t \in Type \ {"system"}, k \in Key, b \in {"none", "forged"}, x \in {post.text, "edited"}}

MessageWillBeUpdated ==
    /\ pc = "stored" /\ edits < MaxEdits
    /\ edits' = edits + 1
    /\ \E new \in Proposed \cup {[post EXCEPT !.text = "edited"]} :
          post' = KeepPluginOwnedFields(new, post)
    /\ UNCHANGED <<config, input, attached, pc, result, told, panicked, changes>>

\* An edit may also take the attachment off, and leaves EditAt alone then.
Detach ==
    /\ pc = "stored" /\ attached
    /\ attached' = FALSE
    /\ UNCHANGED <<config, input, pc, post, result, told, panicked, changes, edits>>

SetConfiguration ==
    /\ changes < MaxChanges /\ pc # "stored"
    /\ changes' = changes + 1
    /\ config' \in Settings \ {config}
    /\ UNCHANGED <<input, attached, pc, post, result, told, panicked, edits>>

Next ==
    \/ \E f \in Document : RunStamper(f)
    \/ Decorate
    \/ MessageWillBeUpdated
    \/ Detach
    \/ SetConfiguration

Spec == Init /\ [][Next]_vars

-----------------------------------------------------------------------------
DrawsThroughEdits(k) == post.blobs[k] # "none" /\ (post.blobs[k] = "file" => attached)

(* CotPostBody, GeoJsonPostBody and ReportPostBody: after an edit, or with *)
(* its file gone, the card stands down.                                    *)
DocumentBodyDraws(k) ==
    /\ post.blobs[k] # "none"
    /\ post.text # "edited"
    /\ (k # "avreport" /\ post.blobs[k] = "file") => attached

(* AirfieldsPostBody, which wants the message's links to agree as well.    *)
AirfieldsBodyDraws == post.blobs["airfields"] # "none" /\ post.text = "linked"

(* DecoratorPostBody: the message's sole link says what the props say.     *)
DecoratorBodyDraws == post.blobs["location"] # "none" /\ post.text = "linked"

BodyDraws ==
    \/ post.type \in Document /\ DocumentBodyDraws(post.type)
    \/ post.type = "airfields" /\ AirfieldsBodyDraws
    \/ post.type = "location" /\ DecoratorBodyDraws

(* overlayForPost, for a reader who may read the channel.                  *)
OverlayForPost ==
    /\ post.type \in Key \ {"location"}
    /\ post.text # "edited"
    /\ post.blobs[post.type] # "none"
    /\ post.blobs[post.type] = "file" => attached

-----------------------------------------------------------------------------
TypeOK ==
    /\ config \in Settings
    /\ message \in Messages
    /\ file \in File \cup {NoFile}
    /\ attached \in BOOLEAN
    /\ arrived \in Post
    /\ pc \in Stages \cup {"stored"}
    /\ post \in Post
    /\ result \in Post \cup {Nil}
    /\ told \subseteq Document
    /\ panicked \in BOOLEAN
    /\ changes \in 0 .. MaxChanges /\ edits \in 0 .. MaxEdits

IsStored == pc = "stored"

(* Whatever the author forged, whichever stage was off or panicked, and    *)
(* whatever an edit asked for: a stored post of a plugin type carries the  *)
(* prop of that type, written by the hook, and no stored post carries any  *)
(* other plugin-owned prop.                                                *)
StampIsWhole ==
    TypeOK /\ (IsStored => \A k \in Key :
        IF post.type = k THEN post.blobs[k] \in {"message", "file"} ELSE post.blobs[k] = "none")

(* keepPluginOwnedFields: no edit ever adds, replaces or removes a stamp.  *)
StampIsFinal ==
    [][IsStored => /\ post'.blobs = post.blobs
                   /\ (post'.type \in Key \/ post.type \in Key) => post'.type = post.type]_vars

(* What a reader's card draws was written by the hook, from a message that *)
(* has not changed since or from a file that is still attached.            *)
WhatIsDrawnStands ==
    IsStored /\ BodyDraws =>
        \/ post.blobs[post.type] = "message" /\ post.text # "edited"
        \/ post.blobs[post.type] = "file" /\ attached

(* The map page never draws what the card has stood down from.             *)
MapPageAgrees == IsStored /\ OverlayForPost => BodyDraws

(* Card and page decide apart, and neither draws what no longer stands.    *)
CardTellsTheTruth == WhatIsDrawnStands /\ MapPageAgrees

FileWon == IsStored /\ post.type \in Document /\ post.blobs[post.type] = "file"

\* What the message shows to a stamper that comes after a file's: Cursor on
\* Target comes first, and reads its own message before any file.
VisibleDocument ==
    \E f \in Document \ {"cot"} : Enabled(f) /\ InMessage(f) /\ message.reads /\ Wanted(f)

\* A file is stamped only when the message beside it shows no document the
\* installation renders.  A restriction on a single line is excepted:
\* messageShowsAvReport does not know that source.
RenderedMessageWins ==
    FileWon /\ changes = 0 => ~VisibleDocument \/ message.shape = "one-line restriction"

\* An author who labeled a fence, of a format that is on, and got no card is
\* told so, unless a stage panicked.
LabeledRefusalsAreTold ==
    \A f \in Document :
        (/\ IsStored /\ edits = 0 /\ changes = 0 /\ ~panicked
         /\ Labeled(f) /\ Enabled(f) /\ InMessage(f) /\ (message.reads => Wanted(f))
         /\ arrived.type \notin {"other", "system"} /\ post.type # f)
        => f \in told

(* What the message says comes first: it is not passed over for a file     *)
(* when the installation would draw it, and not refused in silence when    *)
(* its author asked for it by name.                                        *)
TheMessageComesFirst == RenderedMessageWins /\ LabeledRefusalsAreTold
=============================================================================
