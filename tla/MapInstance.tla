----------------------------- MODULE MapInstance -----------------------------
(***************************************************************************)
(* The lifetime of one map: useMapInstance and the component around it     *)
(* (webapp/src/decorators/location/map/use_map_instance.ts,                *)
(* LocationMap.tsx).  A render replaces the props at once; the effects     *)
(* that act on them run some time after, and MapLibre's events, the        *)
(* readiness deadline and the loads an attempt awaits arrive in between.   *)
(*                                                                         *)
(* What is shown is one of Views: the position and the overlay together,   *)
(* which is what the effects are keyed on.  A picture is the view it was   *)
(* drawn from; the camera is what it was last pointed at.                  *)
(***************************************************************************)
EXTENDS Integers, FiniteSets

CONSTANTS
    Pinned,      \* views with a position the projection reaches
    Extents,     \* no position, but markers or shapes to frame
    Beyond,      \* a position past the Mercator limit
    Unplaced,    \* neither a position nor an overlay
    Converting,  \* the unplaced views whose conversion is under way
    MaxMoves,    \* bound: renders with another view
    MaxFocus     \* bound: "show on the map" presses

Views == Pinned \cup Extents \cup Beyond \cup Unplaced

ASSUME ViewsAssumption ==
    /\ \A s, t \in {Pinned, Extents, Beyond, Unplaced} : s # t => s \cap t = {}
    /\ Converting \subseteq Unplaced
    /\ "nothing" \notin Views
    /\ MaxMoves \in Nat /\ MaxFocus \in Nat

Attempts == 1 .. MaxMoves + 1

VARIABLES
    mounted,
    preview,   \* the hover card's map: no controls, no packages
    view,      \* the props of the last render, as the refs hold them
    focus,     \* the focus prop's sequence number, 0 when there is none
    openAt,    \* openAtRef: a camera from the link, until it is spent
    focusRef, applied,   \* focusRef and appliedFocusSeq
    dirty,     \* which props changed since the effects last ran
    stage,     \* where each creation attempt has got to
    live,      \* the attempt whose effect run is live, 0 when none is
    canvas,    \* each attempt's MapLibre instance, and its WebGL context
    detailed,  \* the instances whose style carries OpenStreetMap
    current,   \* map.current, 0 for null
    ready, loaded, failure, credited,
    deadlines, \* readiness timers armed
    archive, engine,   \* what the session knows of the basemap and of WebGL2
    picture, camera,   \* what the sources draw and where the camera went
    moves

load == <<archive, engine>>
props == <<mounted, preview, view, focus, moves>>
drawing == <<picture, camera, applied, openAt>>
lifetime == <<stage, live, canvas, detailed, current, ready, loaded, failure, credited, deadlines>>
vars == <<props, dirty, focusRef, load, drawing, lifetime>>

-----------------------------------------------------------------------------
(* What the props say.                                                     *)
ExtentOnly(v) == v \in Extents
Positioned(v) == v \in Pinned
Known(v)      == Positioned(v) \/ ExtentOnly(v)

\* positionNote, behind a failure's own words.
Note ==
    IF failure # "none" THEN failure
    ELSE IF view \in Beyond THEN "too far"
    ELSE IF view \in Converting THEN "loading"
    ELSE IF view \in Unplaced THEN "unavailable"
    ELSE IF ~loaded THEN "loading" ELSE "none"

\* Where the camera was last pointed.
Nowhere == <<"none", 0>>
AtLink == <<"link", 0>>
AtFocus(n) == <<"focus", n>>
AtView(v) == <<"view", v>>

TypeOK ==
    /\ {mounted, preview, openAt, ready, loaded, credited} \subseteq BOOLEAN
    /\ view \in Views /\ moves \in 0 .. MaxMoves
    /\ {focus, focusRef, applied} \subseteq 0 .. MaxFocus
    /\ dirty \subseteq {"view", "focus"}
    /\ stage \in [Attempts -> {"unused", "names", "loads", "over"}]
    /\ canvas \in [Attempts -> {"none", "open", "removed", "lost"}]
    /\ {live, current} \subseteq {0} \cup Attempts
    /\ detailed \subseteq Attempts /\ deadlines \subseteq Attempts
    /\ failure \in {"none", "no webgl", "no basemap"}
    /\ archive \in {"unread", "good", "bad"} /\ engine \in {"unread", "loaded", "absent"}
    /\ picture \in Views \cup {"nothing"}
    /\ camera \in {Nowhere, AtLink} \cup {AtView(v) : v \in Views} \cup {AtFocus(n) : n \in 1 .. MaxFocus}

Init ==
    /\ mounted = TRUE /\ preview \in BOOLEAN /\ view \in Views
    /\ focus = 0 /\ openAt \in BOOLEAN /\ focusRef = 0 /\ applied = 0
    /\ dirty = {"view"}
    /\ stage = [a \in Attempts |-> "unused"] /\ live = 0
    /\ canvas = [a \in Attempts |-> "none"] /\ detailed = {}
    /\ current = 0 /\ ready = FALSE /\ loaded = FALSE
    /\ failure = "none" /\ credited = FALSE /\ deadlines = {}
    /\ archive = "unread" /\ engine \in {"unread", "absent"}
    /\ picture = "nothing" /\ camera = Nowhere /\ moves = 0

-----------------------------------------------------------------------------
\* As Frame, but the focus is not marked as applied.
FrameAgain(f) ==
    \/ f # 0 /\ camera' = AtFocus(f) /\ openAt' = FALSE /\ UNCHANGED applied
    \/ f = 0 /\ camera' = AtView(view) /\ UNCHANGED <<applied, openAt>>

(* applyView: the camera and the four sources follow the refs.  A focus    *)
(* not yet applied goes before the link's camera, and that before the      *)
(* box of what is drawn; a view with nothing to place clears every source  *)
(* and moves nothing.  `f` is the focus as focusRef holds it.              *)
Frame(f) ==
    \/ /\ f # applied
       /\ camera' = AtFocus(f) /\ applied' = f /\ openAt' = FALSE
    \/ /\ f = applied /\ openAt
       /\ camera' = AtLink /\ openAt' = FALSE /\ UNCHANGED applied
    \/ /\ f = applied /\ ~openAt
       /\ camera' = AtView(view) /\ UNCHANGED <<applied, openAt>>

KeepsThePicture == picture' = picture

ClearsThePicture == picture' = "nothing"

ApplyView(isReady, f) ==
    \/ /\ ~isReady
       /\ UNCHANGED drawing
    \/ /\ isReady /\ Known(view)
       /\ picture' = view
       /\ Frame(f)
    \/ /\ isReady /\ ~Known(view)
       /\ ClearsThePicture
       /\ UNCHANGED <<camera, applied, openAt>>

(* A render with other props: the refs follow at once.                     *)
Move(v) ==
    /\ mounted /\ v # view /\ moves < MaxMoves
    /\ view' = v /\ moves' = moves + 1
    /\ dirty' = dirty \cup {"view"}
    /\ UNCHANGED <<mounted, preview, focus, focusRef, load, drawing, lifetime>>

(* useMapFocus: "show on the map" hands the next sequence number down.     *)
ShowOnMap ==
    /\ mounted /\ focus < MaxFocus
    /\ focus' = focus + 1
    /\ dirty' = dirty \cup {"focus"}
    /\ UNCHANGED <<mounted, preview, view, moves, focusRef, load, drawing, lifetime>>

\* A verdict belongs to the view that produced it; no WebGL is for good.
RetireVerdict == failure' = IF failure = "no webgl" THEN failure ELSE "none"

(* The creation effect: the run before it is no longer live, and a new     *)
(* attempt starts unless a map exists or there is nothing to look at.      *)
Create ==
    \/ /\ current # 0 \/ ~Known(view)
       /\ live' = 0 /\ UNCHANGED stage
    \/ /\ current = 0 /\ Known(view)
       /\ \E a \in Attempts :
             /\ stage[a] = "unused" /\ \A b \in Attempts : b < a => stage[b] # "unused"
             /\ live' = a
             /\ stage' = [stage EXCEPT ![a] = IF preview THEN "loads" ELSE "names"]

(* The effects of a render, in their order: the focus, the verdict, the    *)
(* creation and the movement.  Two calls of applyView in one flush leave   *)
(* what one call leaves, but for the focus: a focus applied by the first   *)
(* is framed over by the second.                                           *)
FocusThenMove ==
    \/ ~ready /\ UNCHANGED drawing
    \/ /\ ready /\ Known(view)
       /\ picture' = view /\ camera' = AtView(view)
       /\ applied' = focus /\ openAt' = FALSE
    \/ /\ ready /\ ~Known(view)
       /\ ClearsThePicture /\ UNCHANGED <<camera, applied, openAt>>

Effects ==
    /\ mounted /\ dirty # {}
    /\ dirty' = {}
    /\ focusRef' = focus
    /\ IF "view" \in dirty THEN RetireVerdict /\ Create ELSE UNCHANGED <<failure, live, stage>>
    /\ IF dirty = {"view", "focus"} THEN FocusThenMove ELSE ApplyView(ready, focus)
    /\ UNCHANGED <<props, load, canvas, detailed, current, ready, loaded, credited, deadlines>>

-----------------------------------------------------------------------------
(* The package list is awaited before the loads it names; it always        *)
(* answers, if only with what was known before.                            *)
NamesArrive(a) ==
    /\ stage[a] = "names"
    /\ stage' = [stage EXCEPT ![a] = "loads"]
    /\ UNCHANGED <<props, dirty, focusRef, load, drawing, live, canvas, detailed, current,
                   ready, loaded, failure, credited, deadlines>>

(* What the three loads answer.  WebGL2 and a definitive verdict on the    *)
(* basemap hold for the session; a chunk or a header that only timed out   *)
(* is asked for again.                                                     *)
Answers == [engine : {"loaded", "absent", "unread"}, archive : {"good", "bad", "unread"},
            details : BOOLEAN]

Possible(r) ==
    /\ engine # "unread" => r.engine = engine
    /\ engine = "unread" => r.engine # "absent"
    /\ archive # "unread" => r.archive = archive
    /\ preview => ~r.details

Remove(a) == canvas' = [canvas EXCEPT ![a] = "removed"]

Settle(a, r) ==
    /\ stage[a] = "loads" /\ r \in Answers /\ Possible(r)
    /\ stage' = [stage EXCEPT ![a] = "over"]
    /\ engine' = r.engine /\ archive' = r.archive
    /\ UNCHANGED <<props, dirty, focusRef, drawing, live, ready, loaded>>

\* Superseded, unmounted, or refused a style it cannot draw.
GiveUp(a, r) ==
    /\ Settle(a, r)
    /\ \/ a # live /\ UNCHANGED failure
       \/ a = live /\ r.engine = "absent" /\ failure' = "no webgl"
       \/ a = live /\ r.engine # "absent" /\ (r.engine = "unread" \/ r.archive # "good")
          /\ failure' = "no basemap"
    /\ UNCHANGED <<canvas, detailed, current, credited, deadlines>>

Usable(a, r) == a = live /\ r.engine = "loaded" /\ r.archive = "good"

SetsTheCredit(r) == credited' = r.details

(* A map is constructed, its deadline armed, and adopted.                  *)
Build(a, r) ==
    /\ Settle(a, r) /\ Usable(a, r)
    /\ SetsTheCredit(r)
    /\ detailed' = IF r.details THEN detailed \cup {a} ELSE detailed
    /\ canvas' = [canvas EXCEPT ![a] = "open"]
    /\ deadlines' = deadlines \cup {a}
    /\ current' = a
    /\ UNCHANGED failure

(* The constructor throws: `instance` was never assigned, so the removal   *)
(* on the way out has nothing to remove, and a context that was allocated  *)
(* by then is lost, with nobody left to release it.                        *)
ConstructorThrows(a, r) ==
    /\ Settle(a, r) /\ Usable(a, r)
    /\ SetsTheCredit(r)
    /\ \E c \in {"none", "lost"} : canvas' = [canvas EXCEPT ![a] = c]
    /\ failure' = "no basemap"
    /\ UNCHANGED <<detailed, current, deadlines>>

(* What follows the constructor throws: the context is released.           *)
BuildFails(a, r) ==
    /\ Settle(a, r) /\ Usable(a, r)
    /\ SetsTheCredit(r)
    /\ Remove(a)
    /\ failure' = "no basemap"
    /\ UNCHANGED <<detailed, current, deadlines>>

-----------------------------------------------------------------------------
\* As TearDown, but map.current keeps the map.
TearDownHalf(a) ==
    /\ failure' = "no basemap"
    /\ Remove(a)
    /\ UNCHANGED current

\* A map that never became usable is given back, so the next view can retry.
TearDown(a) ==
    /\ failure' = "no basemap"
    /\ Remove(a)
    /\ current' = 0

(* MapLibre reports an error that is not about one tile.                   *)
OnError(a) ==
    /\ canvas[a] = "open" /\ ~ready /\ current = a
    /\ TearDown(a)
    /\ UNCHANGED <<props, dirty, focusRef, load, drawing, stage, live, detailed, ready, loaded,
                   credited, deadlines>>

(* The readiness deadline: it leaves the set whatever it finds.            *)
OnDeadline(a) ==
    /\ a \in deadlines
    /\ deadlines' = deadlines \ {a}
    /\ IF current # a \/ ready THEN UNCHANGED <<failure, canvas, current>> ELSE TearDown(a)
    /\ UNCHANGED <<props, dirty, focusRef, load, drawing, stage, live, detailed, ready, loaded,
                   credited>>

(* 'load': guarded on the instance and not on the run that made it, so a   *)
(* map whose reader has moved on is placed where the reader is now.        *)
OnLoad(a) ==
    /\ canvas[a] = "open" /\ ~ready /\ current = a
    /\ deadlines' = deadlines \ {a}
    /\ ready' = TRUE /\ loaded' = TRUE /\ failure' = "none"
    /\ ApplyView(TRUE, focusRef)
    /\ UNCHANGED <<props, dirty, focusRef, load, stage, live, canvas, detailed, current, credited>>

(* The reset button, drawn only over a map with nothing to say.            *)
ResetView ==
    /\ mounted /\ Note = "none" /\ ~preview
    /\ ApplyView(ready, focusRef)
    /\ UNCHANGED <<props, dirty, focusRef, load, lifetime>>

(* Unmounting stops the live run, the timers and the map.                  *)
Unmount ==
    /\ mounted /\ mounted' = FALSE
    /\ live' = 0 /\ deadlines' = {} /\ dirty' = {}
    /\ canvas' = [a \in Attempts |-> IF a = current THEN "removed" ELSE canvas[a]]
    /\ current' = 0 /\ ready' = FALSE
    /\ UNCHANGED <<preview, view, focus, moves, focusRef, load, drawing, stage, detailed,
                   loaded, failure, credited>>

Next ==
    \/ \E v \in Views : Move(v)
    \/ ShowOnMap \/ Effects \/ ResetView \/ Unmount
    \/ \E a \in Attempts :
          \/ NamesArrive(a) \/ OnError(a) \/ OnDeadline(a) \/ OnLoad(a)
          \/ \E r \in Answers :
                GiveUp(a, r) \/ Build(a, r) \/ ConstructorThrows(a, r) \/ BuildFails(a, r)

Spec == Init /\ [][Next]_vars

(* React runs the effects of every render, every load is bounded by its    *)
(* own timeout and an armed deadline fires.                                *)
Fairness ==
    /\ WF_vars(Effects)
    /\ \A a \in Attempts :
          /\ WF_vars(NamesArrive(a)) /\ WF_vars(OnDeadline(a))
          /\ WF_vars(\E r \in Answers :
                GiveUp(a, r) \/ Build(a, r) \/ ConstructorThrows(a, r) \/ BuildFails(a, r))

-----------------------------------------------------------------------------
\* Browsers keep about sixteen WebGL contexts: of the maps that were
\* constructed, the only one still open is the component's own, and an
\* unmounted component holds neither a map nor a timer.  What a constructor
\* that threw had allocated ("lost") is excepted: the removal that the comment
\* at use_map_instance.ts:607-609 is about never reaches it.
OneContext ==
    /\ TypeOK
    /\ {a \in Attempts : canvas[a] = "open"} = {current} \ {0}
    /\ ~mounted => current = 0 /\ deadlines = {}

(* Whatever attempt is superseded, fails, times out or throws, nothing of  *)
(* it is left over.  "A stale pin is worse than no pin": once the effects  *)
(* of the last render have run, a map that is ready draws the view the     *)
(* reader is at, or nothing where that view cannot be placed, without a    *)
(* notice from an earlier attempt over it.  The credit stands under a map  *)
(* exactly when OpenStreetMap is in it, whichever attempt built it; and of *)
(* the maps constructed none but the component's own is left open          *)
(* (use_map_instance.ts).                                                  *)
NoStalePin ==
    /\ OneContext
    /\ mounted /\ ready =>
           /\ failure = "none"
           /\ dirty = {} => picture = IF Known(view) THEN view ELSE "nothing"
    /\ current # 0 => (credited <=> current \in detailed)

(* A focus is obeyed once: the camera never goes back to one it has shown. *)
FocusIsNotReplayed ==
    [][camera' # camera => \A n \in 1 .. applied : camera' # AtFocus(n)]_vars

(* Nobody is left at "Loading map...": a reader who stays at a view that   *)
(* can be placed sees the map or is told why there is none.                *)
EveryViewIsAnswered ==
    \A v \in Pinned \cup Extents : (mounted /\ view = v)
        ~> (ready \/ failure # "none" \/ view # v \/ ~mounted)
=============================================================================
