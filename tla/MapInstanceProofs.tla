-------------------------- MODULE MapInstanceProofs --------------------------
(***************************************************************************)
(* Proofs about MapInstance, for any views and any number of renders and   *)
(* focuses: whatever attempt is superseded, fails, times out or throws, a  *)
(* ready map draws the view the reader is at and nothing is left of        *)
(* another attempt (NoStalePin), and no focus is replayed                  *)
(* (FocusIsNotReplayed).                                                   *)
(*                                                                         *)
(* What makes it hold is that at most one attempt may still change         *)
(* anything: the live one, and only while there is no map (OneLife).       *)
(***************************************************************************)
EXTENDS MapInstance, TLAPS

(* An attempt that is still on its way is overtaken, or there is no map;   *)
(* a map that is ready is there; after unmounting nothing is.              *)
OneLife ==
    /\ \A a \in Attempts : canvas[a] = "open" <=> a = current
    /\ live # 0 /\ stage[live] # "over" => current = 0
    /\ ready => current # 0 /\ failure = "none"
    /\ ~mounted => live = 0 /\ current = 0 /\ deadlines = {}

(* The credit is that of the map there is, whose style was settled when    *)
(* its attempt was over.                                                   *)
CreditIsCurrent ==
    /\ \A a \in detailed : stage[a] = "over"
    /\ current # 0 => (credited <=> current \in detailed)

(* Between two flushes of effects the sources may lag, never after one.    *)
DrawnIsCurrent ==
    mounted /\ ready /\ dirty = {} => picture = IF Known(view) THEN view ELSE "nothing"

(* A focus is applied after it was handed down, and those are in order.    *)
FocusInOrder == applied <= focusRef /\ focusRef <= focus

IInv == TypeOK /\ OneLife /\ CreditIsCurrent /\ DrawnIsCurrent /\ FocusInOrder

\* What an application of the view, for a focus f, leaves of the drawing.
Follows(isReady, f) ==
    /\ picture' \in Views \cup {"nothing"} /\ openAt' \in BOOLEAN
    /\ camera' \in {Nowhere, AtLink} \cup {AtView(v) : v \in Views} \cup {AtFocus(n) : n \in 1 .. MaxFocus}
    /\ applied' \in 0 .. MaxFocus /\ applied' <= f
    /\ isReady => picture' = IF Known(view) THEN view ELSE "nothing"
    /\ ~isReady => picture' = picture
    /\ camera' # camera => \A n \in 1 .. applied : camera' # AtFocus(n)

-----------------------------------------------------------------------------
(* applyView draws the view the refs hold, and of a focus only one that is *)
(* newer than the last it applied.                                         *)
LEMMA ApplyViewFollows ==
    ASSUME TypeOK, NEW isReady \in BOOLEAN, NEW f \in 0 .. MaxFocus, applied <= f,
           ApplyView(isReady, f)
    PROVE  Follows(isReady, f)
<1>0. /\ applied \in 0 .. MaxFocus /\ openAt \in BOOLEAN /\ view \in Views
      /\ picture \in Views \cup {"nothing"}
      /\ camera \in {Nowhere, AtLink} \cup {AtView(v) : v \in Views} \cup {AtFocus(n) : n \in 1 .. MaxFocus}
      BY DEF TypeOK
<1>1. CASE ~isReady
      BY <1>0, <1>1 DEF ApplyView, drawing, Follows
<1>2. CASE isReady /\ ~Known(view)
      BY <1>0, <1>2 DEF ApplyView, ClearsThePicture, Follows
<1>3. CASE isReady /\ Known(view)
      <2>1. picture' = view /\ Frame(f)
            BY <1>3 DEF ApplyView
      <2>2. CASE f # applied /\ camera' = AtFocus(f) /\ applied' = f /\ openAt' = FALSE
            <3>1. f \in 1 .. MaxFocus
                  BY <1>0, <2>2
            <3>2. \A n \in 1 .. applied : AtFocus(f) # AtFocus(n)
                  BY <1>0, <2>2 DEF AtFocus
            <3>3. camera' \in {AtFocus(n) : n \in 1 .. MaxFocus}
                  BY <2>2, <3>1
            <3>4. applied' \in 0 .. MaxFocus /\ applied' <= f
                  BY <2>2
            <3>5. \A n \in 1 .. applied : camera' # AtFocus(n)
                  BY <2>2, <3>2
            <3>. HIDE DEF AtFocus
            <3>. QED BY <1>0, <1>3, <2>1, <2>2, <3>3, <3>4, <3>5 DEF Follows
      <2>3. CASE camera' = AtLink /\ openAt' = FALSE /\ applied' = applied
            <3>1. \A n \in 1 .. applied : AtLink # AtFocus(n)
                  BY DEF AtLink, AtFocus
            <3>. QED BY <1>0, <1>3, <2>1, <2>3, <3>1 DEF Follows
      <2>4. CASE camera' = AtView(view) /\ applied' = applied /\ openAt' = openAt
            <3>1. \A n \in 1 .. applied : AtView(view) # AtFocus(n)
                  BY DEF AtView, AtFocus
            <3>. QED BY <1>0, <1>3, <2>1, <2>4, <3>1 DEF Follows
      <2>. QED BY <2>1, <2>2, <2>3, <2>4 DEF Frame
<1>. QED BY <1>1, <1>2, <1>3

(* One flush of effects with another view and another focus leaves what    *)
(* applyView does, but for the camera, which is at the view.               *)
LEMMA FocusThenMoveFollows ==
    ASSUME TypeOK, applied <= focus, FocusThenMove
    PROVE  Follows(ready, focus)
<1>0. /\ applied \in 0 .. MaxFocus /\ focus \in 0 .. MaxFocus /\ openAt \in BOOLEAN /\ view \in Views
      /\ picture \in Views \cup {"nothing"}
      /\ camera \in {Nowhere, AtLink} \cup {AtView(v) : v \in Views} \cup {AtFocus(n) : n \in 1 .. MaxFocus}
      BY DEF TypeOK
<1>1. \A n \in 1 .. applied : AtView(view) # AtFocus(n)
      BY DEF AtView, AtFocus
<1>2. CASE ~ready
      BY <1>0, <1>2 DEF FocusThenMove, drawing, Follows
<1>3. CASE ready /\ ~Known(view)
      BY <1>0, <1>3 DEF FocusThenMove, ClearsThePicture, Follows
<1>4. CASE ready /\ Known(view)
      <2>1. picture' = view /\ camera' = AtView(view) /\ applied' = focus /\ openAt' = FALSE
            BY <1>4 DEF FocusThenMove
      <2>2. camera' \in {AtView(v) : v \in Views} /\ applied' \in 0 .. MaxFocus /\ applied' <= focus
            BY <1>0, <2>1
      <2>. QED BY <1>0, <1>1, <1>4, <2>1, <2>2 DEF Follows
<1>. QED BY <1>2, <1>3, <1>4

(* Other props: the sources lag until the effects have run.                *)
LEMMA RendersKeep ==
    ASSUME IInv, (\E v \in Views : Move(v)) \/ ShowOnMap
    PROVE  IInv'
<1>0. /\ dirty' # {} /\ TypeOK /\ OneLife /\ CreditIsCurrent /\ FocusInOrder
      /\ UNCHANGED <<mounted, preview, focusRef, load, drawing, lifetime>>
      BY DEF IInv, Move, ShowOnMap
<1>t. /\ view \in Views /\ moves \in 0 .. MaxMoves /\ focus \in 0 .. MaxFocus /\ dirty \subseteq {"view", "focus"}
      /\ MaxMoves \in Nat /\ MaxFocus \in Nat
      BY <1>0, ViewsAssumption DEF TypeOK
<1>1. /\ view' \in Views /\ moves' \in 0 .. MaxMoves
      /\ focus' \in 0 .. MaxFocus /\ focus <= focus' /\ dirty' \subseteq {"view", "focus"}
      <2>1. CASE ShowOnMap
            <3>1. /\ UNCHANGED <<view, moves>> /\ focus < MaxFocus /\ focus' = focus + 1
                  /\ dirty' = dirty \cup {"focus"}
                  BY <2>1 DEF ShowOnMap
            <3>. QED BY <1>t, <3>1
      <2>2. CASE \E v \in Views : Move(v)
            <3>1. /\ view' \in Views /\ moves' = moves + 1 /\ moves < MaxMoves
                  /\ focus' = focus /\ dirty' = dirty \cup {"view"}
                  BY <2>2 DEF Move
            <3>. QED BY <1>t, <3>1
      <2>. QED BY <2>1, <2>2
<1>2. TypeOK'
      BY <1>0, <1>1 DEF TypeOK, load, drawing, lifetime
<1>3. (OneLife /\ CreditIsCurrent)'
      BY <1>0 DEF OneLife, CreditIsCurrent, lifetime
<1>4. FocusInOrder'
      <2>1. applied' = applied /\ focusRef' = focusRef /\ focusRef \in 0 .. MaxFocus /\ focus \in 0 .. MaxFocus
            BY <1>0 DEF TypeOK, drawing
      <2>. QED BY <1>0, <1>1, <2>1 DEF FocusInOrder
<1>. QED BY <1>0, <1>2, <1>3, <1>4 DEF IInv, DrawnIsCurrent

(* The effects of a render: they start an attempt only where there is no   *)
(* map, and a ready map is drawn afresh.                                   *)
LEMMA EffectsKeep ==
    ASSUME IInv, Effects
    PROVE  IInv'
<1>0. /\ TypeOK /\ OneLife /\ CreditIsCurrent /\ FocusInOrder
      /\ mounted /\ dirty' = {} /\ focusRef' = focus
      /\ UNCHANGED <<mounted, preview, view, focus, moves, archive, engine, canvas, detailed, current,
                     ready, loaded, credited, deadlines>>
      BY DEF IInv, Effects, props, load
<1>1. /\ applied \in 0 .. MaxFocus /\ focusRef \in 0 .. MaxFocus /\ focus \in 0 .. MaxFocus
      /\ applied <= focus /\ ready \in BOOLEAN
      <2>1. applied \in 0 .. MaxFocus /\ focusRef \in 0 .. MaxFocus /\ focus \in 0 .. MaxFocus /\ ready \in BOOLEAN
            BY <1>0 DEF TypeOK
      <2>. QED BY <1>0, <2>1 DEF FocusInOrder
<1>2. Follows(ready, focus)
      <2>1. CASE dirty = {"view", "focus"}
            BY <1>0, <1>1, <2>1, FocusThenMoveFollows DEF Effects
      <2>2. CASE dirty # {"view", "focus"}
            BY <1>0, <1>1, <2>2, ApplyViewFollows DEF Effects
      <2>. QED BY <2>1, <2>2
<1>3. /\ failure' \in {"none", "no webgl", "no basemap"} /\ (failure = "none" => failure' = "none")
      /\ live' \in {0} \cup Attempts /\ stage' \in [Attempts -> {"unused", "names", "loads", "over"}]
      /\ live' # 0 /\ stage'[live'] # "over" => current = 0
      /\ \A a \in Attempts : stage[a] = "over" => stage'[a] = "over"
      <2>1. CASE "view" \notin dirty
            <3>1. UNCHANGED <<failure, live, stage>>
                  BY <2>1 DEF Effects
            <3>. QED BY <1>0, <3>1 DEF TypeOK, OneLife
      <2>2. CASE "view" \in dirty
            <3>1. RetireVerdict /\ Create
                  BY <2>2 DEF Effects
            <3>2. /\ failure' \in {"none", "no webgl", "no basemap"} /\ (failure = "none" => failure' = "none")
                  BY <1>0, <3>1 DEF RetireVerdict, TypeOK
            <3>3. CASE live' = 0 /\ stage' = stage
                  BY <1>0, <3>2, <3>3 DEF TypeOK
            <3>4. ASSUME NEW a \in Attempts, current = 0, stage[a] = "unused", live' = a,
                         stage' = [stage EXCEPT ![a] = IF preview THEN "loads" ELSE "names"]
                  PROVE  /\ live' \in {0} \cup Attempts
                         /\ stage' \in [Attempts -> {"unused", "names", "loads", "over"}]
                         /\ live' # 0 /\ stage'[live'] # "over" => current = 0
                         /\ \A b \in Attempts : stage[b] = "over" => stage'[b] = "over"
                  BY <1>0, <3>4 DEF TypeOK
            <3>. QED BY <3>1, <3>2, <3>3, <3>4 DEF Create
      <2>. QED BY <2>1, <2>2
<1>4. TypeOK'
      BY <1>0, <1>1, <1>2, <1>3 DEF TypeOK, Follows
<1>5. OneLife'
      BY <1>0, <1>3 DEF OneLife
<1>6. CreditIsCurrent'
      BY <1>0, <1>3 DEF CreditIsCurrent, TypeOK
<1>7. DrawnIsCurrent'
      BY <1>0, <1>2 DEF DrawnIsCurrent, Follows, Known, Positioned, ExtentOnly
<1>8. FocusInOrder'
      BY <1>0, <1>1, <1>2 DEF FocusInOrder, Follows
<1>. QED BY <1>4, <1>5, <1>6, <1>7, <1>8 DEF IInv

\* What becomes of an attempt once its loads have answered.
Attempt(a, r) == GiveUp(a, r) \/ Build(a, r) \/ ConstructorThrows(a, r) \/ BuildFails(a, r)

(* What an attempt awaits arrives: only the live one goes on to say why    *)
(* there is no map, or to be the map.                                      *)
LEMMA AttemptKeeps ==
    ASSUME IInv, NEW a \in Attempts,
           NamesArrive(a) \/ \E r \in Answers : Attempt(a, r)
    PROVE  IInv'
<1>0. /\ TypeOK /\ OneLife /\ CreditIsCurrent /\ FocusInOrder /\ DrawnIsCurrent
      /\ stage[a] \in {"names", "loads"} /\ stage \in [Attempts -> {"unused", "names", "loads", "over"}]
      /\ canvas \in [Attempts -> {"none", "open", "removed", "lost"}] /\ 0 \notin Attempts
      /\ a \notin detailed
      /\ UNCHANGED <<mounted, preview, view, focus, moves, dirty, focusRef, picture, camera, applied, openAt,
                     live, ready, loaded>>
      <2>1. TypeOK /\ OneLife /\ CreditIsCurrent /\ FocusInOrder /\ DrawnIsCurrent
            BY DEF IInv
      <2>2. /\ stage \in [Attempts -> {"unused", "names", "loads", "over"}]
            /\ canvas \in [Attempts -> {"none", "open", "removed", "lost"}]
            BY <2>1 DEF TypeOK
      <2>3. /\ stage[a] \in {"names", "loads"}
            /\ UNCHANGED <<mounted, preview, view, focus, moves, dirty, focusRef, picture, camera, applied, openAt,
                           live, ready, loaded>>
            BY DEF NamesArrive, Attempt, GiveUp, Build, ConstructorThrows, BuildFails, Settle, props, drawing
      <2>4. a \notin detailed
            BY <2>1, <2>3 DEF CreditIsCurrent
      <2>5. 0 \notin Attempts
            BY DEF Attempts
      <2>. QED BY <2>1, <2>2, <2>3, <2>4, <2>5
<1>1. /\ DrawnIsCurrent' /\ FocusInOrder'
      BY <1>0 DEF DrawnIsCurrent, FocusInOrder, Known, Positioned, ExtentOnly
<1>2. CASE NamesArrive(a)
      <2>1. /\ stage' = [stage EXCEPT ![a] = "loads"]
            /\ UNCHANGED <<load, canvas, detailed, current, failure, credited, deadlines>>
            BY <1>2 DEF NamesArrive
      <2>2. stage' \in [Attempts -> {"unused", "names", "loads", "over"}]
            BY <1>0, <2>1
      <2>3. TypeOK'
            BY <1>0, <2>1, <2>2 DEF TypeOK, load
      <2>4. live # 0 /\ stage'[live] # "over" => current = 0
            BY <1>0, <2>1 DEF OneLife, TypeOK
      <2>5. OneLife'
            BY <1>0, <2>1, <2>4 DEF OneLife
      <2>6. CreditIsCurrent'
            BY <1>0, <2>1 DEF CreditIsCurrent, TypeOK
      <2>. QED BY <1>1, <2>3, <2>5, <2>6 DEF IInv
<1>3. ASSUME NEW r \in Answers, Attempt(a, r)
      PROVE  IInv'
      <2>1. /\ stage[a] = "loads" /\ stage' = [stage EXCEPT ![a] = "over"]
            /\ engine' \in {"loaded", "absent", "unread"} /\ archive' \in {"good", "bad", "unread"}
            BY <1>3 DEF Attempt, GiveUp, Build, ConstructorThrows, BuildFails, Settle, Answers
      <2>2. /\ stage' \in [Attempts -> {"unused", "names", "loads", "over"}]
            /\ \A b \in Attempts : stage[b] = "over" => stage'[b] = "over"
            /\ stage'[a] = "over"
            BY <1>0, <2>1
      <2>3. live = a => current = 0 /\ ~ready
            BY <1>0, <2>1 DEF OneLife
      <2>4. live # 0 /\ stage'[live] # "over" => current = 0 /\ live # a
            BY <1>0, <2>1 DEF OneLife, TypeOK
      <2>5. CASE GiveUp(a, r)
            <3>1. /\ UNCHANGED <<canvas, detailed, current, credited, deadlines>>
                  /\ failure' \in {failure, "no webgl", "no basemap"} /\ (a # live => failure' = failure)
                  BY <2>5 DEF GiveUp
            <3>2. TypeOK'
                  BY <1>0, <2>1, <2>2, <3>1 DEF TypeOK
            <3>3. OneLife'
                  BY <1>0, <2>3, <2>4, <3>1 DEF OneLife
            <3>4. CreditIsCurrent'
                  BY <1>0, <2>2, <3>1 DEF CreditIsCurrent, TypeOK
            <3>. QED BY <1>1, <3>2, <3>3, <3>4 DEF IInv
      <2>6. CASE Build(a, r)
            <3>1. /\ live = a /\ credited' = r.details /\ r.details \in BOOLEAN
                  /\ detailed' = IF r.details THEN detailed \cup {a} ELSE detailed
                  /\ canvas' = [canvas EXCEPT ![a] = "open"] /\ current' = a
                  /\ deadlines' = deadlines \cup {a} /\ failure' = failure
                  BY <2>6 DEF Build, Usable, SetsTheCredit, Answers
            <3>2. TypeOK'
                  <4>1. canvas' \in [Attempts -> {"none", "open", "removed", "lost"}]
                        BY <1>0, <3>1
                  <4>. QED BY <1>0, <2>1, <2>2, <3>1, <4>1 DEF TypeOK
            <3>3. \A b \in Attempts : canvas'[b] = "open" <=> b = current'
                  BY <1>0, <2>3, <3>1 DEF OneLife
            <3>4. mounted
                  BY <1>0, <3>1 DEF OneLife
            <3>5. OneLife'
                  BY <1>0, <2>2, <2>3, <3>1, <3>3, <3>4 DEF OneLife
            <3>6. CreditIsCurrent'
                  BY <1>0, <2>2, <3>1 DEF CreditIsCurrent, TypeOK
            <3>. QED BY <1>1, <3>2, <3>5, <3>6 DEF IInv
      <2>7. CASE ConstructorThrows(a, r) \/ BuildFails(a, r)
            <3>1. /\ live = a /\ credited' = r.details /\ r.details \in BOOLEAN
                  /\ failure' = "no basemap" /\ UNCHANGED <<detailed, current, deadlines>>
                  BY <2>7 DEF ConstructorThrows, BuildFails, Usable, SetsTheCredit, Answers
            <3>c. PICK c \in {"none", "removed", "lost"} : canvas' = [canvas EXCEPT ![a] = c]
                  BY <2>7 DEF ConstructorThrows, BuildFails, Remove
            <3>2. TypeOK'
                  <4>1. canvas' \in [Attempts -> {"none", "open", "removed", "lost"}]
                        BY <1>0, <3>c
                  <4>. QED BY <1>0, <2>1, <2>2, <3>1, <4>1 DEF TypeOK
            <3>3. \A b \in Attempts : canvas'[b] = "open" <=> b = current'
                  <4>1. \A b \in Attempts : canvas[b] # "open"
                        BY <1>0, <2>3, <3>1 DEF OneLife
                  <4>. QED BY <1>0, <2>3, <3>1, <3>c, <4>1
            <3>4. OneLife'
                  BY <1>0, <2>3, <2>4, <3>1, <3>3 DEF OneLife
            <3>5. CreditIsCurrent'
                  BY <1>0, <2>2, <2>3, <3>1 DEF CreditIsCurrent, TypeOK
            <3>. QED BY <1>1, <3>2, <3>4, <3>5 DEF IInv
      <2>. QED BY <1>3, <2>5, <2>6, <2>7 DEF Attempt
<1>. QED BY <1>2, <1>3

(* A map that fails or never loads is given back; one that loads is drawn  *)
(* where the reader is now.                                                *)
LEMMA MapKeeps ==
    ASSUME IInv, NEW a \in Attempts, OnError(a) \/ OnDeadline(a) \/ OnLoad(a)
    PROVE  IInv'
<1>0. /\ TypeOK /\ OneLife /\ CreditIsCurrent /\ FocusInOrder /\ DrawnIsCurrent
      /\ canvas \in [Attempts -> {"none", "open", "removed", "lost"}] /\ 0 \notin Attempts
      /\ UNCHANGED <<mounted, preview, view, focus, moves, dirty, focusRef, archive, engine, stage, live,
                     detailed, credited>>
      <2>1. TypeOK /\ OneLife /\ CreditIsCurrent /\ FocusInOrder /\ DrawnIsCurrent
            BY DEF IInv
      <2>2. canvas \in [Attempts -> {"none", "open", "removed", "lost"}]
            BY <2>1 DEF TypeOK
      <2>3. UNCHANGED <<mounted, preview, view, focus, moves, dirty, focusRef, archive, engine, stage, live,
                        detailed, credited>>
            BY DEF OnError, OnDeadline, OnLoad, props, load
      <2>4. 0 \notin Attempts
            BY DEF Attempts
      <2>. QED BY <2>1, <2>2, <2>3, <2>4
<1>1. CASE /\ current = a /\ ~ready /\ TearDown(a) /\ deadlines' \subseteq deadlines
           /\ UNCHANGED <<drawing, ready, loaded>>
      <2>1. /\ failure' = "no basemap" /\ canvas' = [canvas EXCEPT ![a] = "removed"] /\ current' = 0
            BY <1>1 DEF TearDown, Remove
      <2>2. canvas' \in [Attempts -> {"none", "open", "removed", "lost"}]
            BY <1>0, <2>1
      <2>3. TypeOK'
            BY <1>0, <1>1, <2>1, <2>2 DEF TypeOK, drawing
      <2>4. \A b \in Attempts : canvas'[b] = "open" <=> b = current'
            BY <1>0, <1>1, <2>1 DEF OneLife
      <2>5. OneLife'
            BY <1>0, <1>1, <2>1, <2>4 DEF OneLife
      <2>6. CreditIsCurrent'
            BY <1>0, <2>1 DEF CreditIsCurrent
      <2>7. (DrawnIsCurrent /\ FocusInOrder)'
            BY <1>0, <1>1 DEF DrawnIsCurrent, FocusInOrder, drawing, Known, Positioned, ExtentOnly
      <2>. QED BY <2>3, <2>5, <2>6, <2>7 DEF IInv
<1>2. CASE /\ OnDeadline(a) /\ (current # a \/ ready)
      <2>1. /\ deadlines' = deadlines \ {a}
            /\ UNCHANGED <<failure, canvas, current, drawing, ready, loaded>>
            BY <1>2 DEF OnDeadline
      <2>2. TypeOK'
            BY <1>0, <2>1 DEF TypeOK, drawing
      <2>3. (OneLife /\ CreditIsCurrent)'
            BY <1>0, <2>1 DEF OneLife, CreditIsCurrent
      <2>4. (DrawnIsCurrent /\ FocusInOrder)'
            BY <1>0, <2>1 DEF DrawnIsCurrent, FocusInOrder, drawing, Known, Positioned, ExtentOnly
      <2>. QED BY <2>2, <2>3, <2>4 DEF IInv
<1>3. CASE OnLoad(a)
      <2>1. /\ current = a /\ deadlines' = deadlines \ {a} /\ ready' = TRUE /\ loaded' = TRUE
            /\ failure' = "none" /\ UNCHANGED <<canvas, current>> /\ ApplyView(TRUE, focusRef)
            BY <1>3 DEF OnLoad
      <2>2. focusRef \in 0 .. MaxFocus /\ applied <= focusRef /\ applied \in 0 .. MaxFocus
            BY <1>0 DEF TypeOK, FocusInOrder
      <2>3. Follows(TRUE, focusRef)
            BY <1>0, <2>1, <2>2, ApplyViewFollows
      <2>4. TypeOK'
            BY <1>0, <2>1, <2>3 DEF TypeOK, Follows
      <2>5. (OneLife /\ CreditIsCurrent)'
            BY <1>0, <2>1 DEF OneLife, CreditIsCurrent
      <2>6. DrawnIsCurrent'
            BY <1>0, <2>3 DEF DrawnIsCurrent, Follows, Known, Positioned, ExtentOnly
      <2>7. FocusInOrder'
            BY <1>0, <2>2, <2>3 DEF FocusInOrder, Follows
      <2>. QED BY <2>4, <2>5, <2>6, <2>7 DEF IInv
<1>. QED BY <1>1, <1>2, <1>3 DEF OnError, OnDeadline

(* The reset button draws the view again; unmounting leaves nothing.       *)
LEMMA OthersKeep ==
    ASSUME IInv, ResetView \/ Unmount \/ UNCHANGED vars
    PROVE  IInv'
<1>0. TypeOK /\ OneLife /\ CreditIsCurrent /\ FocusInOrder /\ DrawnIsCurrent
      BY DEF IInv
<1>1. CASE ResetView
      <2>1. UNCHANGED <<mounted, preview, view, focus, moves, dirty, focusRef, archive, engine, stage, live, canvas,
                        detailed, current, ready, loaded, failure, credited, deadlines>>
            BY <1>1 DEF ResetView, props, load, lifetime
      <2>2. focusRef \in 0 .. MaxFocus /\ applied \in 0 .. MaxFocus /\ ready \in BOOLEAN
            BY <1>0 DEF TypeOK
      <2>3. Follows(ready, focusRef)
            BY <1>0, <1>1, <2>2, ApplyViewFollows DEF ResetView, FocusInOrder
      <2>4. TypeOK'
            BY <1>0, <2>1, <2>3 DEF TypeOK, Follows
      <2>5. (OneLife /\ CreditIsCurrent)'
            BY <1>0, <2>1 DEF OneLife, CreditIsCurrent
      <2>6. DrawnIsCurrent'
            BY <1>0, <2>1, <2>3 DEF DrawnIsCurrent, Follows, Known, Positioned, ExtentOnly
      <2>7. FocusInOrder'
            BY <1>0, <2>1, <2>2, <2>3 DEF FocusInOrder, Follows
      <2>. QED BY <2>4, <2>5, <2>6, <2>7 DEF IInv
<1>2. CASE Unmount
      <2>1. /\ mounted' = FALSE /\ live' = 0 /\ deadlines' = {} /\ dirty' = {} /\ current' = 0 /\ ready' = FALSE
            /\ canvas' = [a \in Attempts |-> IF a = current THEN "removed" ELSE canvas[a]]
            /\ UNCHANGED <<preview, view, focus, moves, focusRef, archive, engine, picture, camera, applied, openAt,
                           stage, detailed, loaded, failure, credited>>
            BY <1>2 DEF Unmount, load, drawing
      <2>2. canvas' \in [Attempts -> {"none", "open", "removed", "lost"}]
            BY <1>0, <2>1 DEF TypeOK
      <2>3. TypeOK'
            BY <1>0, <2>1, <2>2 DEF TypeOK
      <2>4. 0 \notin Attempts
            BY DEF Attempts
      <2>5. \A a \in Attempts : canvas'[a] = "open" <=> a = current'
            BY <1>0, <2>1, <2>4 DEF OneLife
      <2>6. (OneLife /\ CreditIsCurrent /\ DrawnIsCurrent /\ FocusInOrder)'
            BY <1>0, <2>1, <2>5 DEF OneLife, CreditIsCurrent, DrawnIsCurrent, FocusInOrder
      <2>. QED BY <2>3, <2>6 DEF IInv
<1>3. CASE UNCHANGED vars
      <2>1. TypeOK'
            BY <1>0, <1>3 DEF TypeOK, vars, props, load, drawing, lifetime
      <2>2. (OneLife /\ CreditIsCurrent /\ FocusInOrder)'
            BY <1>0, <1>3 DEF OneLife, CreditIsCurrent, FocusInOrder, vars, props, load, drawing, lifetime
      <2>3. DrawnIsCurrent'
            BY <1>0, <1>3 DEF DrawnIsCurrent, Known, Positioned, ExtentOnly, vars, props, drawing, lifetime
      <2>. QED BY <2>1, <2>2, <2>3 DEF IInv
<1>. QED BY <1>1, <1>2, <1>3

(* The invariant holds at first, no step breaks it, so it always holds.    *)
LEMMA Invariance == Spec => []IInv
<1>1. Init => IInv
      <2> SUFFICES ASSUME Init PROVE IInv
          OBVIOUS
      <2>1. 0 \notin Attempts /\ 0 \in 0 .. MaxMoves /\ 0 \in 0 .. MaxFocus
            BY ViewsAssumption DEF Attempts
      <2>2. TypeOK
            BY <2>1 DEF Init, TypeOK
      <2>3. OneLife /\ CreditIsCurrent /\ DrawnIsCurrent /\ FocusInOrder
            BY <2>1 DEF Init, OneLife, CreditIsCurrent, DrawnIsCurrent, FocusInOrder
      <2>. QED BY <2>2, <2>3 DEF IInv
<1>2. IInv /\ [Next]_vars => IInv'
      BY RendersKeep, EffectsKeep, AttemptKeeps, MapKeeps, OthersKeep DEF Next, Attempt
<1>. QED BY <1>1, <1>2, PTL DEF Spec

-----------------------------------------------------------------------------
(* Whatever attempt is superseded, fails, times out or throws: a ready map *)
(* draws the view the reader is at, under no notice and with the credit    *)
(* its style owes, and the only WebGL context open is the map's own.       *)
THEOREM NothingStaleIsDrawn == Spec => []NoStalePin
<1>1. ASSUME IInv PROVE NoStalePin
      <2>1. TypeOK /\ OneLife /\ CreditIsCurrent /\ DrawnIsCurrent
            BY <1>1 DEF IInv
      <2>2. {a \in Attempts : canvas[a] = "open"} = {current} \ {0}
            <3>1. current \in {0} \cup Attempts
                  BY <2>1 DEF TypeOK
            <3>2. 0 \notin Attempts
                  BY DEF Attempts
            <3>. QED BY <2>1, <3>1, <3>2 DEF OneLife
      <2>3. OneContext
            BY <2>1, <2>2 DEF OneContext, OneLife
      <2>. QED BY <2>1, <2>3 DEF NoStalePin, OneLife, CreditIsCurrent, DrawnIsCurrent
<1>. QED BY <1>1, Invariance, PTL

(* The camera never goes to a focus as old as one that was applied.        *)
THEOREM FocusesAreSpent == Spec => FocusIsNotReplayed
<1>1. ASSUME IInv, Next, camera' # camera PROVE \A n \in 1 .. applied : camera' # AtFocus(n)
      <2>1. TypeOK /\ FocusInOrder
            BY <1>1 DEF IInv
      <2>2. /\ applied \in 0 .. MaxFocus /\ focusRef \in 0 .. MaxFocus /\ focus \in 0 .. MaxFocus
            /\ ready \in BOOLEAN
            BY <2>1 DEF TypeOK
      <2>3. applied <= focusRef /\ applied <= focus
            BY <2>1, <2>2 DEF FocusInOrder
      <2>4. \/ ApplyView(ready, focusRef) \/ ApplyView(TRUE, focusRef)
            \/ ApplyView(ready, focus) \/ FocusThenMove
            <3>1. CASE Effects
                  BY <3>1 DEF Effects
            <3>2. CASE ResetView \/ \E a \in Attempts : OnLoad(a)
                  BY <3>2 DEF ResetView, OnLoad
            <3>3. CASE (\E v \in Views : Move(v)) \/ ShowOnMap \/ Unmount
                  BY <1>1, <3>3 DEF Move, ShowOnMap, Unmount, drawing
            <3>4. ASSUME NEW a \in Attempts, \/ NamesArrive(a) \/ OnError(a) \/ OnDeadline(a)
                                             \/ \E r \in Answers : Attempt(a, r)
                  PROVE  FALSE
                  BY <1>1, <3>4 DEF NamesArrive, OnError, OnDeadline, Attempt, GiveUp, Build, ConstructorThrows,
                     BuildFails, Settle, drawing
            <3>. QED BY <1>1, <3>1, <3>2, <3>3, <3>4 DEF Next, Attempt
      <2>5. \E isReady \in BOOLEAN, f \in 0 .. MaxFocus : Follows(isReady, f)
            BY <2>1, <2>2, <2>3, <2>4, ApplyViewFollows, FocusThenMoveFollows
      <2>. QED BY <1>1, <2>5 DEF Follows
<1>2. IInv /\ [Next]_vars => [camera' # camera => \A n \in 1 .. applied : camera' # AtFocus(n)]_vars
      BY <1>1
<1>. QED BY <1>2, Invariance, PTL DEF Spec, FocusIsNotReplayed
=============================================================================
