----------------------------- MODULE TabProofs -----------------------------
(***************************************************************************)
(* Proofs about three components of a tab that share nothing.              *)
(*                                                                         *)
(* Sidebar, for any number of bundles and installs, any links and any      *)
(* panels with an editor: whatever a tab went through, what stands in it   *)
(* is the running bundle's, and no form is shown over a value it was not   *)
(* opened on (ClicksReachTheSidebar).  The inductive invariant says of the *)
(* document and the registry that they hold the running bundle's things    *)
(* once, which its disposers know of (OneBundle), of the sidebar that it   *)
(* is that bundle's (RhsIsRunning), and of the editors left open that they *)
(* are under no other value.                                               *)
(*                                                                         *)
(* TabStores, for any areas, archives and lifetimes: whatever order the    *)
(* questions, the failures and the administrator's changes come in, a      *)
(* question that could not be answered is not taken for an answer          *)
(* (FailuresAreNotAnswers).  Each store has its part of the invariant.     *)
(*                                                                         *)
(* BridgeLinks, for any elements, any requests, any limit and lifetime of  *)
(* the cache: an element never draws the answer to another request, never  *)
(* waits for a call that is over, and the promises the elements share are  *)
(* bounded, one for a key and none of them a failed one                    *)
(* (LinksTellTheTruth).  What an element will draw depends on the call it  *)
(* waits for, and that call on the cache it was taken from: the invariant  *)
(* says of the cache that every entry is of the call of its key            *)
(* (CacheIsShared), and of an element that the call it holds is of its own *)
(* request and under way, and that one that holds none and owes no effect  *)
(* has its answer (ElementWaits).                                          *)
(***************************************************************************)
EXTENDS Sidebar, TabStores, BridgeLinks, FiniteSetTheorems, SequenceTheorems, TLAPS

\* What the sidebar can have been asked for.
Seen == {NoItem} \cup {[type |-> link.type, payload |-> link.payload] : link \in Links}

\* Whose things may stand in the tab.
Held == IF running = 0 THEN {} ELSE {running}

(* One listener, one stylesheet, one global and one registration, all the  *)
(* running bundle's, and the disposers to undo them.                       *)
OneBundle ==
    /\ running \in {0} \cup Bundle /\ latest \in Nat
    /\ components = Held
    /\ listening = IF running = 0 THEN <<>> ELSE <<running>>
    /\ style = running /\ global = running
    /\ running # 0 => disposers = {"components", "global", "listener", "style"}

ModuleRec == [panels : {{}, Types}, installed : BOOLEAN, store : BOOLEAN,
              selection : Seen, editing : SUBSET EditorTypes]
View == [state : {"closed", "rendered", "live"}, shown : Seen]

(* What a bundle's module holds: it counts as installed while it runs.     *)
ModuleState ==
    /\ module \in [Bundle -> ModuleRec]
    /\ \A b \in Bundle : /\ module[b].installed => b = running
                         /\ b = running => module[b].installed /\ module[b].store /\ module[b].panels = Types

(* The sidebar that is open is the running bundle's.                       *)
RhsIsRunning ==
    /\ open \in {0, running}
    /\ view.state # "closed" => open = running /\ running # 0
    /\ view \in View

(* The page's own anchors ask for the shared window.                       *)
PageIsShared == page # NoPage => page.rel \cap {"noopener", "noreferrer"} = {}

SidebarInv ==
    /\ OneBundle
    /\ ModuleState
    /\ RhsIsRunning
    /\ editedOn \in [EditorTypes -> Seen] /\ EditorIsOfItsItem
    /\ PageIsShared

-----------------------------------------------------------------------------
(* Of one listener, removing it leaves none.                               *)
LEMMA Silence ==
    ASSUME NEW b, listening = <<b>>
    PROVE  Silenced(b) = <<>>
<1>1. ToSet(listening) = {b} /\ DOMAIN listening = {1} /\ Len(listening) = 1 /\ listening[1] = b
      BY DEF ToSet
<1>2. (CHOOSE i \in DOMAIN listening : listening[i] = b) = 1
      BY <1>1
<1>3. Silenced(b) = RemoveAt(<<b>>, 1)
      BY <1>1, <1>2 DEF Silenced
<1>4. RemoveAt(<<b>>, 1) = <<>>
      BY DEF RemoveAt
<1>. QED BY <1>3, <1>4

(* initialize() of a bundle in a tab where none runs.                      *)
LEMMA InitializeKeeps ==
    ASSUME SidebarInv, NEW b \in Bundle, Initialize(b)
    PROVE  SidebarInv'
<1>0. /\ OneBundle /\ ModuleState /\ RhsIsRunning /\ PageIsShared /\ editedOn \in [EditorTypes -> Seen]
      /\ running = 0 /\ b # 0 /\ b \in Nat
      /\ UNCHANGED <<open, view, editedOn, saving, page>>
      BY DEF SidebarInv, Initialize, panel_vars, Bundle
<1>1. view.state = "closed"
      BY <1>0 DEF RhsIsRunning, View
<1>2. ~module[b].installed /\ style = 0 /\ listening = <<>>
      BY <1>0 DEF OneBundle, ModuleState
<1> DEFINE m == [module[b] EXCEPT !.panels = Types, !.installed = TRUE, !.store = TRUE]
<1>3. /\ running' = b /\ latest' = b /\ module' = [module EXCEPT ![b] = m]
      /\ components' = components \cup {b} /\ listening' = Append(listening, b) /\ style' = b /\ global' = b
      /\ disposers' = {"components", "global", "listener", "style"}
      BY <1>0, <1>2 DEF Initialize, InstallsListener, InstallsStyle, Registered, ModuleState
<1>4. OneBundle'
      <2>1. listening' = <<b>>
            BY <1>2, <1>3
      <2>. QED BY <1>0, <1>3, <2>1 DEF OneBundle, Held
<1>5. ModuleState'
      <2>1. module[b] \in ModuleRec /\ module \in [Bundle -> ModuleRec]
            BY <1>0 DEF ModuleState
      <2>2. m \in ModuleRec /\ m.installed /\ m.store /\ m.panels = Types
            BY <2>1 DEF ModuleRec
      <2>. HIDE DEF m
      <2>3. module' \in [Bundle -> ModuleRec] /\ \A c \in Bundle : module'[c] = IF c = b THEN m ELSE module[c]
            BY <1>3, <2>1, <2>2
      <2>4. \A c \in Bundle : c # 0 /\ ~module[c].installed
            BY <1>0 DEF ModuleState, Bundle
      <2>. QED BY <1>3, <2>2, <2>3, <2>4 DEF ModuleState
<1>6. RhsIsRunning' /\ PageIsShared' /\ editedOn' \in [EditorTypes -> Seen] /\ EditorIsOfItsItem'
      BY <1>0, <1>1 DEF RhsIsRunning, PageIsShared, EditorIsOfItsItem, Editing
<1>. QED BY <1>4, <1>5, <1>6 DEF SidebarInv

(* uninitialize() releases everything the bundle put into the tab.         *)
LEMMA UninitializeKeeps ==
    ASSUME SidebarInv, Uninitialize
    PROVE  SidebarInv'
<1>0. /\ OneBundle /\ ModuleState /\ RhsIsRunning /\ PageIsShared /\ editedOn \in [EditorTypes -> Seen]
      /\ running \in Bundle /\ running # 0 /\ running' = 0 /\ disposers' = {} /\ open' = 0 /\ view' = Closed
      /\ UNCHANGED <<latest, editedOn, page>>
      BY DEF SidebarInv, Uninitialize, OneBundle
<1>1. /\ components' = components \ {running} /\ listening' = Silenced(running)
      /\ module' = [module EXCEPT ![running].installed = FALSE] /\ style' = 0
      /\ global' = IF global = running THEN 0 ELSE global
      BY <1>0 DEF Uninitialize, Release, OneBundle
<1>2. listening' = <<>>
      BY <1>0, <1>1, Silence DEF OneBundle
<1>3. OneBundle'
      BY <1>0, <1>1, <1>2 DEF OneBundle, Held
<1>4. ModuleState'
      <2> DEFINE m == [module[running] EXCEPT !.installed = FALSE]
      <2>1. module[running] \in ModuleRec /\ module \in [Bundle -> ModuleRec]
            BY <1>0 DEF ModuleState
      <2>2. m \in ModuleRec /\ ~m.installed
            BY <2>1 DEF ModuleRec
      <2>3. module' = [module EXCEPT ![running] = m]
            BY <1>1, <2>1
      <2>4. 0 \notin Bundle
            BY DEF Bundle
      <2>. HIDE DEF m
      <2>. QED BY <1>0, <2>1, <2>2, <2>3, <2>4 DEF ModuleState
<1>5. RhsIsRunning' /\ PageIsShared' /\ editedOn' \in [EditorTypes -> Seen] /\ EditorIsOfItsItem'
      BY <1>0 DEF RhsIsRunning, PageIsShared, EditorIsOfItsItem, Editing, Closed, View, Seen
<1>. QED BY <1>3, <1>4, <1>5 DEF SidebarInv

\* The parts of the tab that only a bundle's coming and going changes.
Standing == <<running, latest, disposers, listening, style, global, components>>

(* What stands in the tab does not change, and the modules and the sidebar *)
(* keep what is known of them.                                             *)
LEMMA StandingKeeps ==
    ASSUME OneBundle, UNCHANGED Standing
    PROVE  OneBundle'
BY DEF OneBundle, Held, Standing

(* A selection: an editor stays open under the value it was opened on, and *)
(* closes under another.                                                   *)
LEMMA SelectKeeps ==
    ASSUME SidebarInv, NEW item \in Seen, item.type \in Types, running # 0,
           Select(running, item), OpenRhs(running), UNCHANGED <<Standing, editedOn, page>>
    PROVE  SidebarInv'
<1>0. /\ OneBundle /\ ModuleState /\ RhsIsRunning /\ PageIsShared /\ editedOn \in [EditorTypes -> Seen]
      /\ running \in Bundle /\ EditorIsOfItsItem /\ UNCHANGED <<running, editedOn, page>>
      /\ module \in [Bundle -> ModuleRec] /\ module[running] \in ModuleRec /\ view \in View
      BY DEF SidebarInv, OneBundle, ModuleState, RhsIsRunning, Standing
<1>1. open' = running
      BY <1>0 DEF OpenRhs, ModuleState
<1> DEFINE follows == view.state = "live" /\ open = running
           kept == IF follows THEN LayoutEffect(view.shown, item, module[running].editing)
                   ELSE module[running].editing
           m == [module[running] EXCEPT !.selection = item, !.editing = kept]
<1>2. /\ module' = [module EXCEPT ![running] = m]
      /\ view' = IF follows THEN [view EXCEPT !.shown = item] ELSE view
      BY DEF Select
<1>3. kept \subseteq module[running].editing /\ module[running].editing \subseteq EditorTypes
      BY <1>0 DEF ModuleRec, LayoutEffect
<1>4. m \in ModuleRec /\ m.editing = kept /\ m.panels = module[running].panels
      /\ m.installed = module[running].installed /\ m.store = module[running].store
      BY <1>0, <1>3 DEF ModuleRec
<1>5. follows /\ item.type \in kept => item = view.shown
      BY DEF LayoutEffect
<1>. HIDE DEF kept, m
<1>6. module' \in [Bundle -> ModuleRec] /\ module'[running] = m
      BY <1>0, <1>2, <1>4
<1>7. ModuleState'
      BY <1>0, <1>2, <1>4, <1>6 DEF ModuleState
<1>8. view' \in View /\ view'.state = view.state /\ view'.shown = IF follows THEN item ELSE view.shown
      BY <1>0, <1>2 DEF View
<1>9. RhsIsRunning'
      BY <1>0, <1>1, <1>8 DEF RhsIsRunning
<1>10. EditorIsOfItsItem'
      <2>1. CASE view.state = "closed"
            BY <1>8, <2>1 DEF EditorIsOfItsItem, Editing
      <2>2. CASE view.state # "closed"
            <3>1. open = running /\ module'[open'].editing = kept
                  BY <1>0, <1>1, <1>4, <1>6, <2>2 DEF RhsIsRunning
            <3>2. view.shown.type \in module[running].editing => editedOn[view.shown.type] = view.shown
                  BY <1>0, <2>2, <3>1 DEF EditorIsOfItsItem, Editing
            <3>3. view'.shown.type \in kept => editedOn[view'.shown.type] = view'.shown
                  BY <1>3, <1>5, <1>8, <3>2
            <3>. QED BY <1>0, <3>1, <3>3 DEF EditorIsOfItsItem, Editing
      <2>. QED BY <2>1, <2>2
<1>. QED BY <1>0, <1>7, <1>9, <1>10, StandingKeeps DEF SidebarInv, PageIsShared

(* Of one listener, the one to take a click is that one.                   *)
LEMMA OnlyOneTakes ==
    ASSUME NEW link, NEW modified, listening = <<running>>, Takers(link, modified) # {}
    PROVE  FirstTaker(link, modified) = running
<1>1. DOMAIN listening = {1} /\ listening[1] = running
      OBVIOUS
<1>2. Takers(link, modified) = {1}
      BY <1>1 DEF Takers
<1>. DEFINE P(i) == i \in Takers(link, modified) /\ \A j \in Takers(link, modified) : i <= j
<1>3. \A i \in Takers(link, modified) : i = 1
      BY <1>2
<1>4. (CHOOSE i \in Takers(link, modified) : \A j \in Takers(link, modified) : i <= j) = 1
      BY <1>2
<1>. QED BY <1>1, <1>4 DEF FirstTaker

(* A click that a listener takes, and a button that shows an item, select  *)
(* in the running bundle and open its sidebar.                             *)
LEMMA ClickKeeps ==
    ASSUME SidebarInv, NEW link \in Links,
           Click(link) \/ Show([type |-> link.type, payload |-> link.payload])
    PROVE  SidebarInv'
<1> DEFINE item == [type |-> link.type, payload |-> link.payload]
<1>0. OneBundle /\ ModuleState /\ item \in Seen
      BY DEF SidebarInv, Seen
<1>1. CASE Click(link)
      <2> DEFINE b == FirstTaker(link, FALSE)
      <2>1. /\ Takers(link, FALSE) # {} /\ Select(b, item) /\ OpenRhs(b)
            /\ UNCHANGED <<Standing, editedOn, page>>
            BY <1>1 DEF Click, Standing
      <2>2. PICK i \in DOMAIN listening : Takes(listening[i], link, FALSE) = "sidebar"
            BY <2>1 DEF Takers
      <2>3. running # 0 /\ listening = <<running>> /\ DOMAIN listening = {1} /\ listening[1] = running
            <3>1. running # 0
                  BY <1>0, <2>2 DEF OneBundle
            <3>. QED BY <1>0, <3>1 DEF OneBundle
      <2>4. b = running
            BY <2>1, <2>3, OnlyOneTakes
      <2>5. item.type \in Types
            BY <1>0, <2>2, <2>3 DEF Takes, Usable, ModuleState, OneBundle
      <2>. QED BY <1>0, <2>1, <2>3, <2>4, <2>5, SelectKeeps
<1>2. CASE Show(item)
      <2>1. /\ running # 0 /\ item.type \in module[running].panels /\ Select(running, item) /\ OpenRhs(running)
            /\ UNCHANGED <<Standing, editedOn, page>>
            BY <1>2 DEF Show, Standing
      <2>2. item.type \in Types
            BY <1>0, <2>1 DEF ModuleState, OneBundle
      <2>. QED BY <1>0, <2>1, <2>2, SelectKeeps
<1>. QED BY <1>1, <1>2

(* Of an editor, closing it or closing the sidebar keeps what is known.    *)
LEMMA EditorKeeps ==
    ASSUME SidebarInv, MountSidebar \/ Customize \/ Back \/ EndSave
    PROVE  SidebarInv'
<1>0. /\ OneBundle /\ ModuleState /\ RhsIsRunning /\ PageIsShared /\ editedOn \in [EditorTypes -> Seen]
      /\ EditorIsOfItsItem /\ UNCHANGED <<Standing, open, page>>
      /\ module \in [Bundle -> ModuleRec] /\ view \in View
      /\ EditorTypes \subseteq Types
      BY SidebarAssumption
      DEF SidebarInv, ModuleState, RhsIsRunning, MountSidebar, Customize, Back, EndSave, SetEditing, Standing
<1>u. UNCHANGED <<running, page, open>>
      BY <1>0 DEF Standing
\* An action that leaves every module's fields but `editing` as they are.
<1>m. ASSUME module' \in [Bundle -> ModuleRec],
             \A b \in Bundle : /\ module'[b].installed = module[b].installed /\ module'[b].store = module[b].store
                               /\ module'[b].panels = module[b].panels
      PROVE  ModuleState'
      BY <1>0, <1>u, <1>m DEF ModuleState
<1>e. ASSUME NEW b \in Bundle, NEW E \in SUBSET EditorTypes, module' = [module EXCEPT ![b].editing = E]
      PROVE  /\ ModuleState' /\ module'[b].editing = E
      <2> DEFINE m == [module[b] EXCEPT !.editing = E]
      <2>1. module[b] \in ModuleRec
            BY <1>0
      <2>2. /\ m \in ModuleRec /\ m.editing = E /\ m.installed = module[b].installed /\ m.store = module[b].store
            /\ m.panels = module[b].panels
            BY <2>1 DEF ModuleRec
      <2>3. module' = [module EXCEPT ![b] = m]
            BY <1>0, <1>e
      <2>. HIDE DEF m
      <2>4. module' \in [Bundle -> ModuleRec] /\ \A c \in Bundle : module'[c] = IF c = b THEN m ELSE module[c]
            BY <1>0, <2>2, <2>3
      <2>5. ModuleState'
            BY <1>m, <2>2, <2>4
      <2>. QED BY <2>2, <2>4, <2>5
<1>1. CASE MountSidebar
      <2> DEFINE chosen == module[open].selection
                 E == LayoutEffect(NoItem, chosen, module[open].editing)
      <2>1. /\ open \in components /\ view' = [state |-> "rendered", shown |-> chosen]
            /\ module' = [module EXCEPT ![open].editing = E] /\ editedOn' = editedOn
            BY <1>0, <1>1 DEF MountSidebar
      <2>2. open = running /\ running # 0 /\ open \in Bundle
            BY <1>0, <2>1 DEF OneBundle, Held
      <2>3. module[open] \in ModuleRec
            BY <1>0, <2>2
      <2>4. chosen \in Seen /\ E \in SUBSET EditorTypes
            BY <2>3 DEF ModuleRec, LayoutEffect
      <2>5. chosen.type \notin E
            <3>1. CASE chosen = NoItem
                  <4>1. chosen.type \notin Types
                        BY <3>1 DEF NoItem, Types
                  <4>. QED BY <1>0, <2>4, <4>1
            <3>2. CASE chosen # NoItem
                  BY <3>2 DEF LayoutEffect
            <3>. QED BY <3>1, <3>2
      <2>. HIDE DEF chosen, E
      <2>6. ModuleState' /\ module'[open].editing = E
            BY <1>e, <2>1, <2>2, <2>4
      <2>7. view' \in View /\ view'.shown = chosen
            BY <2>1, <2>4 DEF View
      <2>8. RhsIsRunning'
            BY <1>0, <1>u, <2>2, <2>7 DEF RhsIsRunning
      <2>9. EditorIsOfItsItem'
            BY <1>u, <2>5, <2>6, <2>7 DEF EditorIsOfItsItem, Editing
      <2>. QED BY <1>0, <1>u, <2>1, <2>6, <2>8, <2>9, StandingKeeps DEF SidebarInv, PageIsShared
<1>2. CASE Customize \/ Back
      <2> DEFINE shown == view.shown.type
      <2>1. PICK E \in {module[open].editing \cup {shown}, module[open].editing \ {shown}} :
               /\ module' = [module EXCEPT ![open].editing = E] /\ view.state # "closed" /\ view' = view
               /\ \/ /\ E = module[open].editing \cup {shown} /\ shown \in EditorTypes
                     /\ editedOn' = [editedOn EXCEPT ![shown] = view.shown]
                  \/ E = module[open].editing \ {shown} /\ editedOn' = editedOn
            BY <1>2 DEF Customize, Back, SetEditing, Editing
      <2>2. open = running /\ running # 0 /\ open \in Bundle
            BY <1>0, <2>1 DEF RhsIsRunning, OneBundle
      <2>3. module[open].editing \subseteq EditorTypes /\ view.shown \in Seen
            BY <1>0, <2>2 DEF ModuleRec, View
      <2>4. E \in SUBSET EditorTypes /\ editedOn' \in [EditorTypes -> Seen]
            BY <1>0, <2>1, <2>3
      <2>5. ModuleState' /\ module'[open].editing = E
            BY <1>e, <2>1, <2>2, <2>4
      <2>6. shown \in E => editedOn'[shown] = view.shown
            BY <1>0, <2>1
      <2>7. RhsIsRunning' /\ EditorIsOfItsItem'
            BY <1>0, <1>u, <2>1, <2>5, <2>6 DEF RhsIsRunning, EditorIsOfItsItem, Editing
      <2>. QED BY <1>0, <1>u, <2>4, <2>5, <2>7, StandingKeeps DEF SidebarInv, PageIsShared
<1>3. CASE EndSave
      <2>1. /\ view' = view /\ editedOn' = editedOn
            /\ module' = [b \in Bundle |->
                            [module[b] EXCEPT !.editing = @ \ {t \in EditorTypes : <<b, t>> \in saving}]]
            BY <1>3 DEF EndSave
      <2>2. ASSUME NEW b \in Bundle
            PROVE  /\ module'[b] \in ModuleRec /\ module'[b].editing \subseteq module[b].editing
                   /\ module'[b].installed = module[b].installed /\ module'[b].store = module[b].store
                   /\ module'[b].panels = module[b].panels
            <3>1. module[b] \in ModuleRec /\ module'[b] =
                     [module[b] EXCEPT !.editing = module[b].editing \ {t \in EditorTypes : <<b, t>> \in saving}]
                  BY <1>0, <2>1
            <3>2. module[b].editing \ {t \in EditorTypes : <<b, t>> \in saving} \in SUBSET EditorTypes
                  BY <3>1 DEF ModuleRec
            <3>. QED BY <3>1, <3>2 DEF ModuleRec
      <2>3. module' \in [Bundle -> ModuleRec]
            BY <2>1, <2>2
      <2>4. ModuleState'
            BY <1>m, <2>2, <2>3
      <2>5. view.state # "closed" => module'[open].editing \subseteq module[open].editing
            BY <1>0, <2>2 DEF RhsIsRunning, OneBundle
      <2>6. RhsIsRunning' /\ EditorIsOfItsItem'
            BY <1>0, <1>u, <2>1, <2>5 DEF RhsIsRunning, EditorIsOfItsItem, Editing
      <2>. QED BY <1>0, <1>u, <2>1, <2>4, <2>6, StandingKeeps DEF SidebarInv, PageIsShared
<1>. QED BY <1>1, <1>2, <1>3

(* The rest change one small thing each, or nothing.                       *)
LEMMA OthersKeep ==
    ASSUME SidebarInv,
           \/ \E link \in Links, background \in Backgrounds : ClickForPage(link, background)
           \/ Subscribe \/ CloseSidebar \/ BeginSave \/ UNCHANGED sidebar_vars
    PROVE  SidebarInv'
<1>0. OneBundle /\ ModuleState /\ RhsIsRunning /\ PageIsShared /\ EditorIsOfItsItem
      /\ editedOn \in [EditorTypes -> Seen]
      BY DEF SidebarInv
<1>1. CASE \E link \in Links, background \in Backgrounds : ClickForPage(link, background)
      <2>1. PICK link \in Links, background \in Backgrounds : ClickForPage(link, background)
            BY <1>1
      <2>2. UNCHANGED <<Standing, module, open, view, editedOn>> /\ page' = PageAnchor(link, background)
            BY <2>1 DEF ClickForPage, bundle_vars, panel_vars, Standing
      <2>3. PageIsShared'
            BY <2>2 DEF PageAnchor, PageIsShared
      <2>4. OneBundle' /\ ModuleState' /\ RhsIsRunning' /\ EditorIsOfItsItem'
            BY <1>0, <2>2, StandingKeeps DEF ModuleState, RhsIsRunning, EditorIsOfItsItem, Editing, Standing
      <2>. QED BY <1>0, <2>2, <2>3, <2>4 DEF SidebarInv
<1>2. CASE Subscribe \/ CloseSidebar
      <2>1. UNCHANGED <<Standing, module, editedOn, page>>
            BY <1>2 DEF Subscribe, CloseSidebar, bundle_vars, Standing
      <2>2. \/ /\ view.state = "rendered" /\ open' = open /\ view' = [view EXCEPT !.state = "live"]
            \/ open' = 0 /\ view' = Closed
            BY <1>2 DEF Subscribe, CloseSidebar
      <2>3. view' \in View /\ (view'.state # "closed" =>
                 view.state # "closed" /\ view'.shown = view.shown /\ open' = open)
            BY <1>0, <2>2 DEF RhsIsRunning, View, Closed, Seen
      <2>4. open' \in {0, running}
            BY <1>0, <2>2 DEF RhsIsRunning
      <2>5. RhsIsRunning' /\ EditorIsOfItsItem'
            BY <1>0, <2>1, <2>3, <2>4 DEF RhsIsRunning, EditorIsOfItsItem, Editing, Standing
      <2>. QED BY <1>0, <2>1, <2>5, StandingKeeps DEF SidebarInv, ModuleState, PageIsShared, Standing
<1>3. CASE BeginSave \/ UNCHANGED sidebar_vars
      <2>1. UNCHANGED <<Standing, module, open, view, editedOn, page>>
            BY <1>3 DEF BeginSave, sidebar_vars, bundle_vars, panel_vars, Standing
      <2>2. OneBundle' /\ ModuleState' /\ RhsIsRunning' /\ EditorIsOfItsItem' /\ PageIsShared'
            BY <1>0, <2>1, StandingKeeps
               DEF ModuleState, RhsIsRunning, EditorIsOfItsItem, Editing, PageIsShared, Standing
      <2>. QED BY <1>0, <2>1, <2>2 DEF SidebarInv
<1>. QED BY <1>1, <1>2, <1>3

(* An empty tab is in order.                                               *)
LEMMA SidebarBegins ==
    ASSUME SidebarInit
    PROVE  SidebarInv
<1>1. OneBundle
      BY DEF SidebarInit, OneBundle, Held
<1>2. ModuleState
      <2>1. NewModule \in ModuleRec /\ ~NewModule.installed
            BY DEF NewModule, ModuleRec, Seen
      <2>2. 0 \notin Bundle
            BY DEF Bundle
      <2>. QED BY <2>1, <2>2 DEF SidebarInit, ModuleState
<1>3. RhsIsRunning /\ EditorIsOfItsItem /\ editedOn \in [EditorTypes -> Seen] /\ PageIsShared
      BY DEF SidebarInit, RhsIsRunning, View, Closed, Seen, EditorIsOfItsItem, Editing, PageIsShared
<1>. QED BY <1>1, <1>2, <1>3 DEF SidebarInv

(* Every step keeps the invariant.                                         *)
LEMMA SidebarKeeps ==
    ASSUME SidebarInv, [SidebarNext]_sidebar_vars
    PROVE  SidebarInv'
<1>1. CASE \E b \in Bundle : Initialize(b)
      BY <1>1, InitializeKeeps
<1>2. CASE Uninitialize
      BY <1>2, UninitializeKeeps
<1>3. CASE MountSidebar \/ Customize \/ Back \/ EndSave
      BY <1>3, EditorKeeps
<1>4. CASE \E link \in Links : Click(link) \/ Show([type |-> link.type, payload |-> link.payload])
      BY <1>4, ClickKeeps
<1>5. CASE \/ \E link \in Links, background \in Backgrounds : ClickForPage(link, background)
           \/ Subscribe \/ CloseSidebar \/ BeginSave \/ UNCHANGED sidebar_vars
      BY <1>5, OthersKeep
<1>. QED BY <1>1, <1>2, <1>3, <1>4, <1>5 DEF SidebarNext

(* The invariant holds of every reachable state.                           *)
LEMMA SidebarInvariance == SidebarSpec => []SidebarInv
<1>1. SidebarInit => SidebarInv
      BY SidebarBegins
<1>2. SidebarInv /\ [SidebarNext]_sidebar_vars => SidebarInv'
      BY SidebarKeeps
<1>. QED BY <1>1, <1>2, PTL DEF SidebarSpec

(* What the invariant says of a click, a card and a chip.                  *)
LEMMA WhatStandsIsTheRunning ==
    ASSUME SidebarInv
    PROVE  ClicksReachTheSidebar
<1> DEFINE held == IF running = 0 THEN {} ELSE {running}
<1>0. OneBundle /\ ModuleState /\ EditorIsOfItsItem /\ PageIsShared /\ (running # 0 => running \in Bundle)
      BY DEF SidebarInv, OneBundle
<1>1. components = held /\ {style, global} = IF running = 0 THEN {0} ELSE {running}
      BY <1>0 DEF OneBundle, Held
<1>2. ToSet(listening) = held /\ Len(listening) = Cardinality(held)
      <2>1. CASE running = 0
            <3>1. listening = <<>> /\ held = {}
                  BY <1>0, <2>1 DEF OneBundle
            <3>. QED BY <3>1, FS_EmptySet DEF ToSet
      <2>2. CASE running # 0
            <3>1. listening = <<running>> /\ held = {running}
                  BY <1>0, <2>2 DEF OneBundle
            <3>2. Cardinality({running}) = 1
                  BY FS_Singleton
            <3>. QED BY <3>1, <3>2 DEF ToSet
      <2>. QED BY <2>1, <2>2
<1>3. ASSUME NEW link \in Links, NEW modified \in BOOLEAN, Takers(link, modified) # {}
      PROVE  FirstTaker(link, modified) \in components
      <2>1. running # 0
            BY <1>0, <1>3 DEF OneBundle, Takers
      <2>2. listening = <<running>>
            BY <1>0, <2>1 DEF OneBundle
      <2>3. FirstTaker(link, modified) = running
            BY <1>3, <2>2, OnlyOneTakes
      <2>. QED BY <1>1, <2>1, <2>3
<1>4. ASSUME running # 0, NEW link \in Links, HasCard(link) \/ (HasChip(link) /\ link.payload # 0)
      PROVE  Takes(running, link, FALSE) = IF link.page THEN "page" ELSE "sidebar"
      <2>1. style = running
            BY <1>0 DEF OneBundle
      <2>2. Parsed(link) /\ Usable(running, link)
            BY <1>4, <2>1 DEF HasCard, HasChip, Usable
      <2>. QED BY <2>2 DEF Takes
<1>. HIDE DEF held
<1>5. page # NoPage => page.rel \cap {"noopener", "noreferrer"} = {}
      BY <1>0 DEF PageIsShared
<1>6. /\ EditorIsOfItsItem
      /\ components = held /\ ToSet(listening) = held /\ Len(listening) = Cardinality(held)
      /\ {style, global} = IF running = 0 THEN {0} ELSE {running}
      /\ \A link \in Links, modified \in BOOLEAN :
             Takers(link, modified) # {} => FirstTaker(link, modified) \in components
      /\ running # 0 => \A link \in Links :
             HasCard(link) \/ (HasChip(link) /\ link.payload # 0) =>
                 Takes(running, link, FALSE) = IF link.page THEN "page" ELSE "sidebar"
      /\ page # NoPage => page.rel \cap {"noopener", "noreferrer"} = {}
      <2>1. \A link \in Links, modified \in BOOLEAN :
               Takers(link, modified) # {} => FirstTaker(link, modified) \in components
            BY <1>3
      <2>2. running # 0 => \A link \in Links :
               HasCard(link) \/ (HasChip(link) /\ link.payload # 0) =>
                   Takes(running, link, FALSE) = IF link.page THEN "page" ELSE "sidebar"
            BY <1>4
      <2>. QED BY <1>0, <1>1, <1>2, <1>5, <2>1, <2>2
<1>. QED BY <1>6, Zenon DEF ClicksReachTheSidebar, held

(* Whatever sequence of installs, upgrades and removals a tab went         *)
(* through, a click the plugin takes opens the running bundle's sidebar,   *)
(* every card and chip is of a link it takes, nothing of an earlier bundle *)
(* stands in the tab, and no editor is shown over another value.           *)
THEOREM NothingIsLeftBehind == SidebarSpec => []ClicksReachTheSidebar
<1>1. SidebarInv => ClicksReachTheSidebar
      BY WhatStandsIsTheRunning
<1>. QED BY <1>1, SidebarInvariance, PTL

-----------------------------------------------------------------------------
\* The areas with a name the server takes.
Area == Names \ Misnamed

FeatureSet == [mapPanel : BOOLEAN, mapInline : BOOLEAN, mapPage : BOOLEAN]
Flight == {"none", "asked", "landed"}
FeaturesRec == [value : FeatureSet, at : {Never} \cup Nat, loading : BOOLEAN, error : BOOLEAN, flight : Flight]
PackagesRec == [names : SUBSET Names, at : {Never} \cup Nat, flight : Flight]
ProbeRec == [cached : Headers \cup {NoHeader}, failed : BOOLEAN, flight : BOOLEAN]
Listings == {<<>>, <<"asked">>} \cup {<<"read", list>> : list \in SUBSET Area}
Orders == {<<what, name>> : what \in {"upload", "remove"}, name \in Area}
Served == {<<what, name, granted, list>> :
              what \in {"upload", "remove"}, name \in Area, granted \in BOOLEAN, list \in SUBSET Area}
UploaderRec == [mounted : BOOLEAN, packages : SUBSET Area, removable : SUBSET Area, error : BOOLEAN,
                busy : {""} \cup Area, listing : Listings, writing : {<<>>} \cup Orders \cup Served]
DatasetsRec == [mounted : BOOLEAN, data : Nat, error : BOOLEAN, loading : BOOLEAN]

(* The switches shown are the last that were told, and stand in for none   *)
(* only until there are some.                                              *)
SwitchesInOrder ==
    /\ clock \in Nat /\ switches \in FeatureSet /\ features \in FeaturesRec
    /\ told \in {<<>>} \cup {<<s>> : s \in FeatureSet}
    /\ told # <<>> => features.value = told[1] /\ features.at # Never
    /\ told = <<>> => features.value \in {ALL_FEATURES, NO_FEATURES}
    /\ told = <<>> /\ features.value = ALL_FEATURES => features.error \/ features.loading
    /\ features.loading <=> features.flight = "asked"

(* The areas are of one list that arrived, the directory's names are areas.*)
AreasInOrder ==
    /\ directory \subseteq Area
    /\ packages \in PackagesRec /\ packages.names \in listed

(* An archive is given up on an answer, kept when a style can draw it.     *)
ProbesInOrder ==
    /\ archives \in [Archives -> Headers \cup {NoHeader}] /\ probes \in [Archives -> ProbeRec]
    /\ \A a \in Archives :
           /\ probes[a].failed => a \in refused /\ ~probes[a].flight
           /\ probes[a].cached # NoHeader => ReadHeader(a, probes[a].cached)

(* A mounted control is busy while its own write is under way.             *)
UploaderInOrder ==
    /\ uploader \in UploaderRec
    /\ uploader.removable \subseteq uploader.packages
    /\ uploader.mounted =>
           /\ uploader.writing # <<>> <=> uploader.busy # ""
           /\ uploader.busy # "" => ~uploader.error

(* A read of the datasets is a mounted control's, after the last error.   *)
DatasetsInOrder ==
    /\ changes \in Nat /\ datasets \in DatasetsRec
    /\ datasets.loading => datasets.mounted /\ ~datasets.error

StoresInv == SwitchesInOrder /\ AreasInOrder /\ ProbesInOrder /\ UploaderInOrder /\ DatasetsInOrder

-----------------------------------------------------------------------------
(* The switches: what a read that fails shows is what was told, or all of  *)
(* them where nothing was told yet.                                        *)
LEMMA SwitchesKeep ==
    ASSUME SwitchesInOrder, StoresNext
    PROVE  SwitchesInOrder'
<1>0. /\ clock \in Nat /\ switches \in FeatureSet /\ features \in FeaturesRec
      /\ Never \notin Nat /\ NO_FEATURES \in FeatureSet /\ ALL_FEATURES \in FeatureSet
      BY DEF SwitchesInOrder, Never, NO_FEATURES, ALL_FEATURES, FeatureSet
<1>1. CASE LoadFeatures
      <2>1. UNCHANGED <<clock, switches, told>>
            BY <1>1 DEF LoadFeatures, server
      <2>2. features' = [features EXCEPT !.loading = TRUE, !.error = FALSE, !.flight = "asked"]
            BY <1>1 DEF LoadFeatures
      <2>3. /\ features' \in FeaturesRec /\ features'.value = features.value /\ features'.at = features.at
            /\ features'.loading /\ features'.flight = "asked"
            BY <1>0, <2>2 DEF FeaturesRec, Flight
      <2>. QED BY <2>1, <2>3 DEF SwitchesInOrder
<1>2. CASE FeaturesFlightEnds
      <2>1. UNCHANGED <<clock, switches, told>> /\ features.flight = "landed"
            BY <1>2 DEF FeaturesFlightEnds, server
      <2>2. features' = [features EXCEPT !.flight = "none"]
            BY <1>2 DEF FeaturesFlightEnds
      <2>3. /\ features' \in FeaturesRec /\ features'.value = features.value /\ features'.at = features.at
            /\ features'.loading = features.loading /\ features'.error = features.error
            /\ features'.flight = "none"
            BY <1>0, <2>2 DEF FeaturesRec, Flight
      <2>. QED BY <2>1, <2>3 DEF SwitchesInOrder
<1>3. CASE \E r \in Responses : FeaturesLand(r)
      <2>1. PICK r \in Responses : FeaturesLand(r)
            BY <1>3
      <2>2. UNCHANGED <<clock, switches>> /\ features.flight = "asked"
            BY <2>1 DEF FeaturesLand, server
      <2>3. CASE r = "answered"
            <3>1. /\ features' = [value |-> switches, at |-> clock, loading |-> FALSE, error |-> FALSE,
                                  flight |-> "landed"]
                  /\ told' = <<switches>>
                  BY <2>1, <2>3 DEF FeaturesLand
            <3>2. told' \in {<<>>} \cup {<<s>> : s \in FeatureSet} /\ told' # <<>> /\ told'[1] = switches
                  BY <1>0, <3>1
            <3>3. /\ features' \in FeaturesRec /\ features'.value = switches /\ features'.at # Never
                  /\ ~features'.loading /\ features'.flight = "landed"
                  BY <1>0, <3>1 DEF FeaturesRec, Flight
            <3>. QED BY <1>0, <2>2, <3>2, <3>3 DEF SwitchesInOrder
      <2>4. CASE r # "answered"
            <3>1. /\ told' = told
                  /\ features' = [features EXCEPT !.value = OnFailure, !.loading = FALSE, !.error = TRUE,
                                                  !.flight = "landed"]
                  BY <2>1, <2>4 DEF FeaturesLand
            <3>2. OnFailure \in FeatureSet
                  BY <1>0 DEF OnFailure, FeaturesRec
            <3>3. /\ features' \in FeaturesRec /\ features'.value = OnFailure /\ features'.at = features.at
                  /\ ~features'.loading /\ features'.error /\ features'.flight = "landed"
                  BY <1>0, <3>1, <3>2 DEF FeaturesRec, Flight
            <3>4. /\ told # <<>> => OnFailure = told[1] /\ features.at # Never
                  /\ told = <<>> => OnFailure \in {ALL_FEATURES, NO_FEATURES}
                  BY DEF OnFailure, SwitchesInOrder
            <3>. QED BY <1>0, <2>2, <3>1, <3>3, <3>4 DEF SwitchesInOrder
      <2>. QED BY <2>3, <2>4
<1>4. CASE AdminActs
      <2>1. UNCHANGED <<clock, features, told>>
            BY <1>4 DEF AdminActs, stores
      <2>2. switches' \in FeatureSet
            BY <1>0, <1>4 DEF AdminActs
      <2>. QED BY <2>1, <2>2 DEF SwitchesInOrder
<1>5. CASE ClockTicks
      <2>1. UNCHANGED <<switches, features, told>> /\ clock' \in Nat
            BY <1>0, <1>5 DEF ClockTicks, stores
      <2>. QED BY <2>1 DEF SwitchesInOrder
<1>6. CASE MapsNext
      <2>1. UNCHANGED <<clock, switches, features, told>>
            BY <1>6 DEF MapsNext, SeedPackages, LoadPackageNames, PackagesFlightEnds, PackagesLand,
               LoadArchive, ProbeLands, server
      <2>. QED BY <2>1 DEF SwitchesInOrder
<1>7. CASE ConsoleNext
      <2>1. UNCHANGED <<clock, switches, features, told>>
            BY <1>7 DEF ConsoleNext, MountUploader, ServeList, UnmountUploader, RefreshDatasets, LeaveDatasets,
               ListLands, WriteLands, DatasetsLand, RemoveArea, Upload, ServeWrite, server, stores
      <2>. QED BY <2>1 DEF SwitchesInOrder
<1>. QED BY <1>1, <1>2, <1>3, <1>4, <1>5, <1>6, <1>7 DEF StoresNext, FeaturesNext

(* The names of areas are those of one list, and only a list of the        *)
(* server's replaces them.                                                 *)
LEMMA AreasKeep ==
    ASSUME clock \in Nat, AreasInOrder, UploaderInOrder, StoresNext
    PROVE  AreasInOrder'
<1>0. /\ directory \subseteq Area /\ packages \in PackagesRec /\ packages.names \in listed
      /\ Listed \in SUBSET Names
      BY StoresAssumption DEF AreasInOrder, Listed, Area
<1>1. CASE SeedPackages \/ LoadPackageNames \/ PackagesFlightEnds \/ \E r \in Responses : PackagesLand(r)
      <2>1. UNCHANGED directory
            BY <1>1 DEF SeedPackages, LoadPackageNames, PackagesFlightEnds, PackagesLand, server
      <2>2. \/ packages' = [packages EXCEPT !.names = Listed, !.at = clock] /\ listed' = {Listed}
            \/ packages' = [names |-> Listed, at |-> clock, flight |-> "landed"] /\ listed' = {Listed}
            \/ \E f \in Flight : packages' = [packages EXCEPT !.flight = f] /\ listed' = listed
            BY <1>1 DEF SeedPackages, LoadPackageNames, PackagesFlightEnds, PackagesLand, Flight
      <2>3. CASE \E f \in Flight : packages' = [packages EXCEPT !.flight = f] /\ listed' = listed
            <3>1. packages' \in PackagesRec /\ packages'.names = packages.names /\ listed' = listed
                  BY <1>0, <2>3 DEF PackagesRec
            <3>. QED BY <1>0, <2>1, <3>1 DEF AreasInOrder
      <2>4. CASE packages' = [packages EXCEPT !.names = Listed, !.at = clock] /\ listed' = {Listed}
            <3>1. packages' \in PackagesRec /\ packages'.names = Listed
                  BY <1>0, <2>4 DEF PackagesRec
            <3>. QED BY <1>0, <2>1, <2>4, <3>1 DEF AreasInOrder
      <2>5. CASE packages' = [names |-> Listed, at |-> clock, flight |-> "landed"] /\ listed' = {Listed}
            <3>1. packages' \in PackagesRec /\ packages'.names = Listed
                  BY <1>0, <2>5 DEF PackagesRec, Flight
            <3>. QED BY <1>0, <2>1, <2>5, <3>1 DEF AreasInOrder
      <2>. QED BY <2>2, <2>3, <2>4, <2>5
<1>2. CASE \E granted \in BOOLEAN : ServeWrite(granted)
      <2>1. PICK granted \in BOOLEAN : ServeWrite(granted)
            BY <1>2
      <2>2. UNCHANGED <<packages, listed>> /\ uploader.writing \in Orders
            <3>1. uploader.writing \in {<<>>} \cup Orders \cup Served /\ Len(uploader.writing) = 2
                  BY <2>1 DEF ServeWrite, UploaderInOrder, UploaderRec
            <3>2. \A w \in Served : Len(w) = 4
                  BY DEF Served
            <3>3. UNCHANGED <<packages, listed>>
                  BY <2>1 DEF ServeWrite, stores
            <3>4. Len(<<>>) = 0
                  OBVIOUS
            <3>. QED BY <3>1, <3>2, <3>3, <3>4
      <2>3. uploader.writing[2] \in Area
            BY <2>2 DEF Orders
      <2>4. directory' \subseteq Area
            BY <1>0, <2>1, <2>3 DEF ServeWrite
      <2>. QED BY <1>0, <2>2, <2>4 DEF AreasInOrder
<1>3. CASE AdminActs
      <2>1. UNCHANGED <<packages, listed>> /\ directory' \subseteq Area
            BY <1>0, <1>3 DEF AdminActs, stores, Area
      <2>. QED BY <1>0, <2>1 DEF AreasInOrder
<1>4. CASE UNCHANGED <<directory, packages, listed>>
      BY <1>4 DEF AreasInOrder
<1>5. CASE \/ FeaturesNext \/ ClockTicks
           \/ \E a \in Archives : LoadArchive(a)
           \/ \E a \in Archives, how \in {"partial", "whole", "missing", "thrown"}, length \in {Never, 127, 43000} :
                  ProbeLands(a, how, length)
      <2>1. UNCHANGED <<directory, packages, listed>>
            BY <1>5 DEF FeaturesNext, LoadFeatures, FeaturesFlightEnds, FeaturesLand, ClockTicks, LoadArchive,
               ProbeLands, server, stores
      <2>. QED BY <1>4, <2>1
<1>6. CASE \/ MountUploader \/ ServeList \/ UnmountUploader \/ RefreshDatasets \/ LeaveDatasets
           \/ \E r \in Responses : ListLands(r) \/ WriteLands(r) \/ DatasetsLand(r)
           \/ \E name \in Names : RemoveArea(name) \/ \E large \in BOOLEAN : Upload(name, large)
      <2>1. UNCHANGED <<directory, packages, listed>>
            BY <1>6 DEF MountUploader, ServeList, UnmountUploader, RefreshDatasets, LeaveDatasets,
               ListLands, WriteLands, DatasetsLand, RemoveArea, Upload, server, stores
      <2>. QED BY <1>4, <2>1
<1>. QED BY <1>1, <1>2, <1>3, <1>5, <1>6 DEF StoresNext, MapsNext, ConsoleNext

(* An archive that was drawn or given up on stays what it is.              *)
LEMMA ProbesKeep ==
    ASSUME ProbesInOrder, StoresNext
    PROVE  ProbesInOrder'
<1>0. archives \in [Archives -> Headers \cup {NoHeader}] /\ probes \in [Archives -> ProbeRec]
      BY DEF ProbesInOrder
<1>1. CASE \E a \in Archives : LoadArchive(a)
      <2>1. PICK a \in Archives : LoadArchive(a)
            BY <1>1
      <2>2. /\ probes' = [probes EXCEPT ![a].flight = TRUE] /\ ~probes[a].failed
            /\ UNCHANGED <<archives, refused>>
            BY <2>1 DEF LoadArchive, server
      <2>3. probes' \in [Archives -> ProbeRec]
            BY <1>0, <2>2 DEF ProbeRec
      <2>4. \A b \in Archives : /\ probes'[b].failed = probes[b].failed /\ probes'[b].cached = probes[b].cached
                                /\ b # a => probes'[b] = probes[b]
            BY <1>0, <2>2 DEF ProbeRec
      <2>. QED BY <2>2, <2>3, <2>4 DEF ProbesInOrder
<1>2. CASE \E a \in Archives, how \in {"partial", "whole", "missing", "thrown"}, length \in {Never, 127, 43000} :
                 ProbeLands(a, how, length)
      <2>1. PICK a \in Archives, how \in {"partial", "whole", "missing", "thrown"}, length \in {Never, 127, 43000} :
                 ProbeLands(a, how, length)
            BY <1>2
      <2> DEFINE header == IF Ranged(how, length) /\ ReadHeader(a, archives[a]) THEN archives[a] ELSE NoHeader
                 x == [cached |-> header, failed |-> GivenUp(how, header), flight |-> FALSE]
      <2>2. /\ probes' = [probes EXCEPT ![a] = x] /\ archives' = archives
            /\ refused' = IF Definitive(how) /\ header = NoHeader THEN refused \cup {a} ELSE refused
            BY <2>1 DEF ProbeLands, server
      <2>3. header \in Headers \cup {NoHeader} /\ (header # NoHeader => ReadHeader(a, header))
            BY <1>0
      <2>4. GivenUp(how, header) \in BOOLEAN /\ (GivenUp(how, header) => a \in refused')
            BY <2>2 DEF GivenUp, Definitive
      <2>5. x \in ProbeRec
            BY <2>3, <2>4 DEF ProbeRec
      <2>6. x.cached = header /\ x.failed = GivenUp(how, header) /\ ~x.flight
            OBVIOUS
      <2> HIDE DEF header, x
      <2>7. probes' \in [Archives -> ProbeRec] /\ \A b \in Archives : probes'[b] = IF b = a THEN x ELSE probes[b]
            BY <1>0, <2>2, <2>5
      <2>8. refused \subseteq refused'
            BY <2>2
      <2>. QED BY <1>0, <2>2, <2>3, <2>4, <2>6, <2>7, <2>8 DEF ProbesInOrder
<1>3. CASE AdminActs
      <2>1. UNCHANGED <<probes, refused>>
            BY <1>3 DEF AdminActs, stores
      <2>2. archives' \in [Archives -> Headers \cup {NoHeader}]
            BY <1>0, <1>3 DEF AdminActs
      <2>. QED BY <2>1, <2>2 DEF ProbesInOrder
<1>4. CASE UNCHANGED <<archives, probes, refused>>
      BY <1>4 DEF ProbesInOrder
<1>5. CASE \/ FeaturesNext \/ ClockTicks \/ ConsoleNext
           \/ SeedPackages \/ LoadPackageNames \/ PackagesFlightEnds \/ \E r \in Responses : PackagesLand(r)
      <2>1. UNCHANGED <<archives, probes, refused>>
            BY <1>5 DEF FeaturesNext, LoadFeatures, FeaturesFlightEnds, FeaturesLand, ClockTicks,
               SeedPackages, LoadPackageNames, PackagesFlightEnds, PackagesLand,
               ConsoleNext, MountUploader, ServeList, UnmountUploader, RefreshDatasets, LeaveDatasets,
               ListLands, WriteLands, DatasetsLand, RemoveArea, Upload, ServeWrite, server, stores
      <2>. QED BY <1>4, <2>1
<1>. QED BY <1>1, <1>2, <1>3, <1>5 DEF StoresNext, MapsNext

(* An order with what became of it.                                        *)
LEMMA Joined ==
    ASSUME NEW a, NEW b, NEW c, NEW d
    PROVE  <<a, b>> \o <<c, d>> = <<a, b, c, d>>
<1> DEFINE E == {a, b, c, d}
           s == <<a, b>> \o <<c, d>>
<1>1. <<a, b>> \in Seq(E) /\ <<c, d>> \in Seq(E) /\ <<a, b, c, d>> \in Seq(E)
      OBVIOUS
<1>2. Len(<<a, b>>) = 2 /\ Len(<<c, d>>) = 2 /\ Len(<<a, b, c, d>>) = 4
      OBVIOUS
<1>3. /\ s \in Seq(E) /\ Len(s) = 4
      /\ \A i \in 1 .. 4 : s[i] = IF i <= 2 THEN <<a, b>>[i] ELSE <<c, d>>[i - 2]
      BY <1>1, <1>2, ConcatProperties
<1>4. \A i \in 1 .. 4 : s[i] = <<a, b, c, d>>[i]
      BY <1>3
<1> HIDE DEF s
<1>5. s = <<a, b, c, d>>
      BY <1>1, <1>2, <1>3, <1>4, SeqEqual
<1>. QED BY <1>5 DEF s

(* The packages control: it is busy from a click until its write's answer, *)
(* and no error of the one before stands meanwhile.                        *)
LEMMA UploaderKeeps ==
    ASSUME AreasInOrder, UploaderInOrder, StoresNext
    PROVE  UploaderInOrder'
<1>0. /\ uploader \in UploaderRec /\ directory \subseteq Area
      /\ uploader.removable \subseteq uploader.packages
      /\ uploader.mounted => /\ uploader.writing # <<>> <=> uploader.busy # ""
                             /\ uploader.busy # "" => ~uploader.error
      /\ "" \notin Area /\ Shipped \subseteq Area
      BY StoresAssumption DEF AreasInOrder, UploaderInOrder, Area
<1>1. CASE MountUploader
      <2>1. uploader' = [NotMounted EXCEPT !.mounted = TRUE, !.listing = <<"asked">>]
            BY <1>1 DEF MountUploader
      <2>2. uploader' = [mounted |-> TRUE, packages |-> {}, removable |-> {}, error |-> FALSE,
                         busy |-> "", listing |-> <<"asked">>, writing |-> <<>>]
            BY <2>1 DEF NotMounted
      <2>3. <<"asked">> \in Listings
            BY DEF Listings
      <2>. QED BY <2>2, <2>3 DEF UploaderInOrder, UploaderRec
<1>2. CASE ServeList
      <2>1. uploader' = [uploader EXCEPT !.listing = <<"read", directory>>]
            BY <1>2 DEF ServeList
      <2>2. <<"read", directory>> \in Listings
            BY <1>0 DEF Listings
      <2>. QED BY <1>0, <2>1, <2>2 DEF UploaderInOrder, UploaderRec
<1>3. ASSUME NEW r \in Responses, ListLands(r) PROVE UploaderInOrder'
      <2>1. uploader.listing \in Listings /\ Len(uploader.listing) = 2
            BY <1>0, <1>3 DEF ListLands, UploaderRec
      <2>2. uploader.listing[2] \in SUBSET Area
            BY <2>1 DEF Listings
      <2>3. \/ uploader' = [uploader EXCEPT !.listing = <<>>]
            \/ uploader' = [Shows(uploader, uploader.listing[2]) EXCEPT !.listing = <<>>]
            BY <1>3 DEF ListLands
      <2>4. <<>> \in Listings
            BY DEF Listings
      <2>5. CASE uploader' = [uploader EXCEPT !.listing = <<>>]
            BY <1>0, <2>4, <2>5 DEF UploaderInOrder, UploaderRec
      <2>6. CASE uploader' = [Shows(uploader, uploader.listing[2]) EXCEPT !.listing = <<>>]
            <3>1. uploader' = [uploader EXCEPT !.packages = uploader.listing[2] \cup Shipped,
                                               !.removable = uploader.listing[2], !.listing = <<>>]
                  BY <1>0, <2>6 DEF Shows, UploaderRec
            <3>2. uploader.listing[2] \cup Shipped \in SUBSET Area
                  BY <1>0, <2>2
            <3>. QED BY <1>0, <2>2, <2>4, <3>1, <3>2 DEF UploaderInOrder, UploaderRec
      <2>. QED BY <2>3, <2>5, <2>6
<1>4. ASSUME NEW name \in Names, NEW large \in BOOLEAN, Upload(name, large) PROVE UploaderInOrder'
      <2>1. uploader.mounted /\ uploader.busy = "" /\ uploader.writing = <<>>
            BY <1>0, <1>4 DEF Upload
      <2>2. CASE name \in Misnamed \/ large
            <3>1. uploader' = [uploader EXCEPT !.error = TRUE]
                  BY <1>4, <2>2 DEF Upload
            <3>. QED BY <1>0, <2>1, <3>1 DEF UploaderInOrder, UploaderRec
      <2>3. CASE ~(name \in Misnamed \/ large)
            <3>1. uploader' = [uploader EXCEPT !.error = FALSE, !.busy = name, !.writing = <<"upload", name>>]
                  BY <1>4, <2>3 DEF Upload
            <3>2. name \in Area /\ <<"upload", name>> \in Orders /\ <<"upload", name>> # <<>>
                  BY <2>3 DEF Area, Orders
            <3>. QED BY <1>0, <3>1, <3>2 DEF UploaderInOrder, UploaderRec
      <2>. QED BY <2>2, <2>3
<1>5. ASSUME NEW name \in Names, RemoveArea(name) PROVE UploaderInOrder'
      <2>1. uploader' = [uploader EXCEPT !.error = FALSE, !.busy = name, !.writing = <<"remove", name>>]
            BY <1>5 DEF RemoveArea
      <2>2. name \in Area
            BY <1>0, <1>5 DEF RemoveArea, UploaderRec
      <2>3. <<"remove", name>> \in Orders /\ <<"remove", name>> # <<>>
            BY <2>2 DEF Orders
      <2>. QED BY <1>0, <2>1, <2>2, <2>3 DEF UploaderInOrder, UploaderRec
<1>6. ASSUME NEW granted \in BOOLEAN, ServeWrite(granted) PROVE UploaderInOrder'
      <2>1. uploader.writing \in Orders
            <3>1. uploader.writing \in {<<>>} \cup Orders \cup Served /\ Len(uploader.writing) = 2
                  BY <1>0, <1>6 DEF ServeWrite, UploaderRec
            <3>. QED BY <3>1 DEF Served
      <2>2. PICK what \in {"upload", "remove"}, name \in Area : uploader.writing = <<what, name>>
            BY <2>1 DEF Orders
      <2>3. directory' \in SUBSET Area
            <3>1. uploader.writing[1] = what /\ uploader.writing[2] = name
                  BY <2>2
            <3>2. directory' \in {directory, directory \cup {name}, directory \ {name}}
                  BY <1>6, <3>1 DEF ServeWrite
            <3>. QED BY <1>0, <3>2
      <2>4. uploader' = [uploader EXCEPT !.writing = <<what, name, granted, directory'>>]
            <3>1. uploader' = [uploader EXCEPT !.writing = uploader.writing \o <<granted, directory'>>]
                  BY <1>6 DEF ServeWrite
            <3>. QED BY <2>2, <3>1, Joined
      <2>5. <<what, name, granted, directory'>> \in Served /\ <<what, name, granted, directory'>> # <<>>
            BY <2>3 DEF Served
      <2>6. uploader.writing # <<>>
            BY <2>2
      <2>. QED BY <1>0, <2>4, <2>5, <2>6 DEF UploaderInOrder, UploaderRec
<1>7. ASSUME NEW r \in Responses, WriteLands(r) PROVE UploaderInOrder'
      <2>1. uploader.writing \in Served
            <3>1. uploader.writing \in {<<>>} \cup Orders \cup Served /\ Len(uploader.writing) = 4
                  BY <1>0, <1>7 DEF WriteLands, UploaderRec
            <3>. QED BY <3>1 DEF Orders
      <2>2. uploader.writing[4] \in SUBSET Area
            BY <2>1 DEF Served
      <2>3. \/ ~uploader.mounted /\ uploader' = [uploader EXCEPT !.writing = <<>>]
            \/ uploader' = [Shows(uploader, uploader.writing[4]) EXCEPT !.busy = "", !.writing = <<>>]
            \/ uploader' = [[uploader EXCEPT !.error = TRUE] EXCEPT !.busy = "", !.writing = <<>>]
            BY <1>7 DEF WriteLands
      <2>4. CASE ~uploader.mounted /\ uploader' = [uploader EXCEPT !.writing = <<>>]
            BY <1>0, <2>4 DEF UploaderInOrder, UploaderRec
      <2>5. CASE uploader' = [Shows(uploader, uploader.writing[4]) EXCEPT !.busy = "", !.writing = <<>>]
            BY <1>0, <2>2, <2>5 DEF Shows, UploaderInOrder, UploaderRec
      <2>6. CASE uploader' = [[uploader EXCEPT !.error = TRUE] EXCEPT !.busy = "", !.writing = <<>>]
            BY <1>0, <2>6 DEF UploaderInOrder, UploaderRec
      <2>. QED BY <2>3, <2>4, <2>5, <2>6
<1>8. CASE UnmountUploader
      <2>1. uploader' = [NotMounted EXCEPT !.writing = uploader.writing]
            BY <1>8 DEF UnmountUploader
      <2>2. uploader' = [mounted |-> FALSE, packages |-> {}, removable |-> {}, error |-> FALSE,
                         busy |-> "", listing |-> <<>>, writing |-> uploader.writing]
            BY <2>1 DEF NotMounted
      <2>3. <<>> \in Listings
            BY DEF Listings
      <2>. QED BY <1>0, <2>2, <2>3 DEF UploaderInOrder, UploaderRec
<1>9. CASE \/ FeaturesNext \/ MapsNext \/ ClockTicks \/ AdminActs \/ RefreshDatasets \/ LeaveDatasets
           \/ \E r \in Responses : DatasetsLand(r)
      <2>1. UNCHANGED uploader
            BY <1>9 DEF FeaturesNext, LoadFeatures, FeaturesFlightEnds, FeaturesLand, ClockTicks, AdminActs,
               MapsNext, SeedPackages, LoadPackageNames, PackagesFlightEnds, PackagesLand, LoadArchive, ProbeLands,
               RefreshDatasets, LeaveDatasets, DatasetsLand, controls
      <2>. QED BY <2>1 DEF UploaderInOrder
<1>. QED BY <1>1, <1>2, <1>3, <1>4, <1>5, <1>6, <1>7, <1>8, <1>9 DEF StoresNext, ConsoleNext

(* The datasets control.                                                   *)
LEMMA DatasetsKeep ==
    ASSUME DatasetsInOrder, StoresNext
    PROVE  DatasetsInOrder'
<1>0. changes \in Nat /\ datasets \in DatasetsRec
      BY DEF DatasetsInOrder
<1>1. CASE RefreshDatasets
      BY <1>0, <1>1 DEF RefreshDatasets, DatasetsInOrder, DatasetsRec, server
<1>2. CASE LeaveDatasets
      BY <1>0, <1>2 DEF LeaveDatasets, DatasetsInOrder, DatasetsRec, NoTable, server
<1>3. CASE \E r \in Responses : DatasetsLand(r)
      <2>1. /\ UNCHANGED changes /\ datasets.loading
            /\ \/ datasets' = [datasets EXCEPT !.data = changes + 1, !.loading = FALSE]
               \/ datasets' = [datasets EXCEPT !.error = TRUE, !.loading = FALSE]
            BY <1>3 DEF DatasetsLand, server
      <2>2. changes + 1 \in Nat
            BY <1>0
      <2>3. datasets' \in DatasetsRec /\ ~datasets'.loading
            BY <1>0, <2>1, <2>2 DEF DatasetsRec
      <2>. QED BY <1>0, <2>1, <2>3 DEF DatasetsInOrder
<1>4. CASE AdminActs
      <2>1. changes' \in Nat /\ UNCHANGED datasets
            BY <1>0, <1>4 DEF AdminActs, controls
      <2>. QED BY <2>1 DEF DatasetsInOrder
<1>5. CASE \/ FeaturesNext \/ MapsNext \/ ClockTicks
           \/ MountUploader \/ ServeList \/ UnmountUploader
           \/ \E r \in Responses : ListLands(r) \/ WriteLands(r)
           \/ \E name \in Names : RemoveArea(name) \/ \E large \in BOOLEAN : Upload(name, large)
           \/ \E granted \in BOOLEAN : ServeWrite(granted)
      <2>1. CASE FeaturesNext \/ MapsNext \/ ClockTicks
            BY <2>1 DEF FeaturesNext, LoadFeatures, FeaturesFlightEnds, FeaturesLand, ClockTicks,
               MapsNext, SeedPackages, LoadPackageNames, PackagesFlightEnds, PackagesLand, LoadArchive, ProbeLands,
               server, controls, DatasetsInOrder
      <2>2. CASE MountUploader \/ ServeList \/ UnmountUploader
            BY <2>2 DEF MountUploader, ServeList, UnmountUploader, server, DatasetsInOrder
      <2>3. CASE \E r \in Responses : ListLands(r) \/ WriteLands(r)
            BY <2>3 DEF ListLands, WriteLands, server, DatasetsInOrder
      <2>4. CASE \/ \E name \in Names : RemoveArea(name) \/ \E large \in BOOLEAN : Upload(name, large)
                 \/ \E granted \in BOOLEAN : ServeWrite(granted)
            BY <2>4 DEF RemoveArea, Upload, ServeWrite, server, DatasetsInOrder
      <2>. QED BY <1>5, <2>1, <2>2, <2>3, <2>4
<1>. QED BY <1>1, <1>2, <1>3, <1>4, <1>5 DEF StoresNext, ConsoleNext

(* The invariant of the stores holds of every reachable state.             *)
LEMMA StoresInvariance == StoresSpec => []StoresInv
<1>1. StoresInit => StoresInv
      <2> SUFFICES ASSUME StoresInit PROVE StoresInv
          OBVIOUS
      <2>1. SwitchesInOrder
            <3>1. /\ NO_FEATURES \in FeatureSet /\ [ALL_FEATURES EXCEPT !.mapPage = FALSE] \in FeatureSet
                  /\ NO_FEATURES # ALL_FEATURES
                  BY DEF NO_FEATURES, ALL_FEATURES, FeatureSet
            <3>2. features \in FeaturesRec
                  BY <3>1 DEF StoresInit, FeaturesRec, Flight
            <3>. QED BY <3>1, <3>2 DEF StoresInit, SwitchesInOrder
      <2>2. AreasInOrder
            BY DEF StoresInit, AreasInOrder, PackagesRec, Flight
      <2>3. ProbesInOrder
            BY DEF StoresInit, ProbesInOrder, ProbeRec
      <2>4. UploaderInOrder
            BY DEF StoresInit, UploaderInOrder, UploaderRec, NotMounted, Listings
      <2>5. DatasetsInOrder
            BY DEF StoresInit, DatasetsInOrder, DatasetsRec, NoTable
      <2>. QED BY <2>1, <2>2, <2>3, <2>4, <2>5 DEF StoresInv
<1>2. StoresInv /\ [StoresNext]_store_vars => StoresInv'
      <2> SUFFICES ASSUME StoresInv, [StoresNext]_store_vars PROVE StoresInv'
          OBVIOUS
      <2>1. CASE StoresNext
            <3>1. clock \in Nat
                  BY DEF StoresInv, SwitchesInOrder
            <3>. QED BY <2>1, <3>1, SwitchesKeep, AreasKeep, ProbesKeep, UploaderKeeps, DatasetsKeep DEF StoresInv
      <2>2. CASE UNCHANGED store_vars
            BY <2>2 DEF store_vars, server, stores, controls, StoresInv, SwitchesInOrder, AreasInOrder,
               ProbesInOrder, UploaderInOrder, DatasetsInOrder
      <2>. QED BY <2>1, <2>2
<1>. QED BY <1>1, <1>2, PTL DEF StoresSpec

(* A question that could not be answered is not taken for an answer: of    *)
(* the switches, the areas, the archives, and in the console's controls.   *)
THEOREM FailuresStayFailures == StoresSpec => []FailuresAreNotAnswers
<1>1. ASSUME StoresInv PROVE FailuresAreNotAnswers
      <2>0. /\ SwitchesInOrder /\ AreasInOrder /\ ProbesInOrder /\ UploaderInOrder /\ DatasetsInOrder
            BY <1>1 DEF StoresInv
      <2>1. /\ features.value = IF told # <<>> THEN told[1]
                                ELSE IF features.value = ALL_FEATURES THEN ALL_FEATURES ELSE NO_FEATURES
            /\ features.value = ALL_FEATURES /\ told = <<>> => features.error \/ features.loading
            /\ features.loading <=> features.flight = "asked"
            BY <2>0 DEF SwitchesInOrder
      <2>2. packages.names \in listed /\ DetailArchives \subseteq packages.names
            BY <2>0 DEF AreasInOrder, DetailArchives
      <2>3. \A a \in Archives : /\ probes[a].failed => a \in refused /\ ~probes[a].flight
                                /\ probes[a].cached # NoHeader => ReadHeader(a, probes[a].cached)
            BY <2>0 DEF ProbesInOrder
      <2>4. uploader.writing # <<>> => uploader.writing[2] \notin Misnamed
            <3>1. uploader.writing \in {<<>>} \cup Orders \cup Served
                  BY <2>0 DEF UploaderInOrder, UploaderRec
            <3>2. \A w \in Orders \cup Served : w[2] \in Area
                  BY DEF Orders, Served
            <3>. QED BY <3>1, <3>2 DEF Area
      <2>5. datasets.loading => datasets.mounted /\ ~datasets.error
            BY <2>0 DEF DatasetsInOrder
      <2>6. uploader.mounted => /\ uploader.writing # <<>> <=> uploader.busy # ""
                                /\ uploader.busy # "" => ~uploader.error
                                /\ uploader.removable \subseteq uploader.packages
            BY <2>0 DEF UploaderInOrder
      <2>. QED BY <2>1, <2>2, <2>3, <2>4, <2>5, <2>6 DEF FailuresAreNotAnswers
<1>. QED BY <1>1, StoresInvariance, PTL

-----------------------------------------------------------------------------
\* What may have been asked for.
Asked == Requests \cup {NoRequest}

Outcomes == {"linked", "declined", "failed"}
CallRec == [request : Asked, at : Nat, settled : Outcomes \cup {""}]
EntryRec == [key : {Key(request) : request \in Asked}, at : Nat, call : Nat]
SettledRec == [request : Asked, status : {"", "linked", "declined"}, of : Asked]
ElementRec == [mounted : BOOLEAN, request : Asked, due : BOOLEAN, asked : Asked, awaiting : Nat, settled : SettledRec]

LinksTypeOK ==
    /\ now \in Nat
    /\ cache \in Seq(EntryRec)
    /\ calls \in Seq(CallRec)
    /\ elements \in [Hosts -> ElementRec]

OneForAKey(c) == \A i, j \in DOMAIN c : c[i].key = c[j].key => i = j

\* An entry is of the call that was made when it was.
EntryIsOfItsCall(entry) ==
    /\ entry.call \in DOMAIN calls
    /\ Key(calls[entry.call].request) = entry.key /\ calls[entry.call].at = entry.at
    /\ calls[entry.call].settled # "failed"

CacheIsShared ==
    /\ Len(cache) <= LINK_CACHE_LIMIT
    /\ OneForAKey(cache)
    /\ \A i \in DOMAIN cache : EntryIsOfItsCall(cache[i])

ElementWaits(e) ==
    /\ e.due => e.mounted
    /\ e.awaiting # 0 => /\ e.mounted
                         /\ e.awaiting \in DOMAIN calls
                         /\ Key(calls[e.awaiting].request) = Key(e.asked) /\ calls[e.awaiting].settled = ""
    /\ e.awaiting # 0 /\ ~e.due => e.asked = e.request
    /\ e.mounted /\ ~e.due /\ e.awaiting = 0 => e.settled.status # "" /\ e.settled.request = e.request
    /\ e.settled.status # "" => Key(e.settled.of) = Key(e.settled.request)

LinksInv ==
    /\ LinksTypeOK
    /\ CacheIsShared
    /\ \A h \in Hosts : ElementWaits(elements[h])

-----------------------------------------------------------------------------
(* What removing an element leaves: the others, moved up.                  *)
LEMMA RemoveOne ==
    ASSUME NEW S, NEW s \in Seq(S), NEW k \in DOMAIN s
    PROVE  /\ RemoveAt(s, k) \in Seq(S) /\ Len(RemoveAt(s, k)) = Len(s) - 1
           /\ \A i \in 1 .. Len(s) - 1 : RemoveAt(s, k)[i] = s[IF i < k THEN i ELSE i + 1]
<1> DEFINE before == SubSeq(s, 1, k - 1)
           after == SubSeq(s, k + 1, Len(s))
<1>1. Len(s) \in Nat /\ k \in 1 .. Len(s) /\ \A i \in 1 .. Len(s) : s[i] \in S
      BY LenProperties, ElementOfSeq
<1>2. /\ before \in Seq(S) /\ Len(before) = k - 1
      /\ \A i \in 1 .. k - 1 : before[i] = s[i]
      <2>1. 1 \in Int /\ k - 1 \in Int /\ \A i \in 1 .. k - 1 : s[i] \in S
            BY <1>1
      <2>. HIDE DEF before
      <2>2. /\ before \in Seq(S)
            /\ Len(before) = (IF 1 <= k - 1 THEN (k - 1) - 1 + 1 ELSE 0)
            /\ \A i \in 1 .. (k - 1) - 1 + 1 : before[i] = s[1 + i - 1]
            BY <2>1, SubSeqProperties DEF before
      <2>. QED BY <1>1, <2>2
<1>3. /\ after \in Seq(S) /\ Len(after) = Len(s) - k
      /\ \A i \in 1 .. Len(s) - k : after[i] = s[k + i]
      <2>1. k + 1 \in Int /\ Len(s) \in Int /\ \A i \in k + 1 .. Len(s) : s[i] \in S
            BY <1>1
      <2>. HIDE DEF after
      <2>2. /\ after \in Seq(S)
            /\ Len(after) = (IF k + 1 <= Len(s) THEN Len(s) - (k + 1) + 1 ELSE 0)
            /\ \A i \in 1 .. Len(s) - (k + 1) + 1 : after[i] = s[(k + 1) + i - 1]
            BY <2>1, SubSeqProperties DEF after
      <2>. QED BY <1>1, <2>2
<1> DEFINE joined == before \o after
<1>4. RemoveAt(s, k) = joined
      BY DEF RemoveAt
<1>. HIDE DEF before, after
<1>5. /\ joined \in Seq(S) /\ Len(joined) = Len(before) + Len(after)
      /\ \A i \in 1 .. Len(before) + Len(after) : joined[i] =
             IF i <= Len(before) THEN before[i] ELSE after[i - Len(before)]
      BY <1>2, <1>3, ConcatProperties
<1>. HIDE DEF joined
<1>6. Len(joined) = Len(s) - 1 /\ 1 .. Len(before) + Len(after) = 1 .. Len(s) - 1
      BY <1>1, <1>2, <1>3, <1>5
<1>7. ASSUME NEW i \in 1 .. Len(s) - 1
      PROVE  joined[i] = s[IF i < k THEN i ELSE i + 1]
      <2>0. i \in 1 .. Len(before) + Len(after)
            BY <1>6
      <2>1. CASE i < k
            <3>1. i <= Len(before) /\ i \in 1 .. k - 1
                  BY <1>1, <1>2, <2>1
            <3>2. joined[i] = before[i]
                  BY <1>5, <2>0, <3>1
            <3>. QED BY <1>2, <2>1, <3>1, <3>2
      <2>2. CASE ~(i < k)
            <3>1. i - (k - 1) \in 1 .. Len(s) - k /\ k + (i - (k - 1)) = i + 1 /\ ~(i <= k - 1)
                  BY <1>1, <2>2
            <3>2. after[i - (k - 1)] = s[i + 1]
                  BY <1>3, <3>1
            <3>3. joined[i] = after[i - (k - 1)]
                  BY <1>2, <1>5, <2>0, <3>1
            <3>. QED BY <2>2, <3>2, <3>3
      <2>. QED BY <2>1, <2>2
<1>. QED BY <1>4, <1>5, <1>6, <1>7

(* The newest entries of a sequence.                                       *)
LEMMA BoundedKeeps ==
    ASSUME LINK_CACHE_LIMIT \in Nat, NEW S, NEW s \in Seq(S)
    PROVE  /\ Bounded(s) \in Seq(S) /\ Len(Bounded(s)) <= LINK_CACHE_LIMIT
           /\ \E d \in Nat : \A i \in DOMAIN Bounded(s) : i + d \in DOMAIN s /\ Bounded(s)[i] = s[i + d]
<1>1. Len(s) \in Nat /\ DOMAIN s = 1 .. Len(s) /\ \A i \in 1 .. Len(s) : s[i] \in S
      BY LenProperties, ElementOfSeq
<1>2. CASE Len(s) <= LINK_CACHE_LIMIT
      <2>1. Bounded(s) = s
            BY <1>1, <1>2 DEF Bounded
      <2>2. 0 \in Nat /\ \A i \in DOMAIN s : i + 0 \in DOMAIN s /\ s[i] = s[i + 0]
            BY <1>1
      <2>. QED BY <1>2, <2>1, <2>2
<1>3. CASE Len(s) > LINK_CACHE_LIMIT
      <2> DEFINE d == Len(s) - LINK_CACHE_LIMIT
                 tail == SubSeq(s, d + 1, Len(s))
      <2>1. d \in Nat /\ d + 1 \in Int /\ Len(s) \in Int /\ \A i \in d + 1 .. Len(s) : s[i] \in S
            BY <1>1, <1>3
      <2>2. Bounded(s) = tail
            BY <1>1, <1>3 DEF Bounded
      <2>. HIDE DEF tail
      <2>3. /\ tail \in Seq(S)
            /\ Len(tail) = (IF d + 1 <= Len(s) THEN Len(s) - (d + 1) + 1 ELSE 0)
            /\ \A i \in 1 .. Len(s) - (d + 1) + 1 : tail[i] = s[(d + 1) + i - 1]
            BY <2>1, SubSeqProperties DEF tail
      <2>4. Len(tail) = LINK_CACHE_LIMIT /\ DOMAIN tail = 1 .. LINK_CACHE_LIMIT
            <3>1. DOMAIN tail = 1 .. Len(tail)
                  BY <2>3, LenProperties
            <3>. QED BY <1>1, <1>3, <2>3, <3>1
      <2>5. \A i \in DOMAIN tail : i + d \in DOMAIN s /\ tail[i] = s[i + d]
            BY <1>1, <1>3, <2>1, <2>3, <2>4
      <2>. QED BY <2>1, <2>2, <2>3, <2>4, <2>5
<1>. QED BY <1>1, <1>2, <1>3

\* Every element of t is one of s, and no two of them are the same one.
Thinned(t, s) ==
    \E f \in [DOMAIN t -> DOMAIN s] :
        /\ \A i \in DOMAIN t : t[i] = s[f[i]]
        /\ \A i, j \in DOMAIN t : f[i] = f[j] => i = j

(* Map.delete thins the cache, and leaves no entry of the key.             *)
LEMMA WithoutThins ==
    ASSUME LinksTypeOK, OneForAKey(cache), NEW key
    PROVE  /\ Without(key) \in Seq(EntryRec) /\ Len(Without(key)) <= Len(cache)
           /\ Thinned(Without(key), cache)
           /\ \A i \in DOMAIN Without(key) : Without(key)[i].key # key
<1>1. cache \in Seq(EntryRec) /\ Len(cache) \in Nat /\ DOMAIN cache = 1 .. Len(cache)
      BY LenProperties DEF LinksTypeOK
<1>2. CASE ~\E i \in DOMAIN cache : cache[i].key = key
      <2>1. Without(key) = cache
            BY <1>2 DEF Without
      <2>2. [i \in DOMAIN cache |-> i] \in [DOMAIN cache -> DOMAIN cache]
            OBVIOUS
      <2>3. Thinned(cache, cache)
            BY <2>2 DEF Thinned
      <2>. QED BY <1>1, <1>2, <2>1, <2>3
<1>3. CASE \E i \in DOMAIN cache : cache[i].key = key
      <2> DEFINE k == CHOOSE i \in DOMAIN cache : cache[i].key = key
                 f == [i \in 1 .. Len(cache) - 1 |-> IF i < k THEN i ELSE i + 1]
      <2>1. k \in DOMAIN cache /\ cache[k].key = key
            BY <1>3
      <2>2. Without(key) = RemoveAt(cache, k)
            BY <1>3 DEF Without
      <2>. HIDE DEF k
      <2>3. /\ Without(key) \in Seq(EntryRec) /\ Len(Without(key)) = Len(cache) - 1
            /\ \A i \in 1 .. Len(cache) - 1 : Without(key)[i] = cache[IF i < k THEN i ELSE i + 1]
            BY <1>1, <2>1, <2>2, RemoveOne
      <2>4. DOMAIN Without(key) = 1 .. Len(cache) - 1
            BY <2>3, LenProperties
      <2>5. k \in 1 .. Len(cache)
            BY <1>1, <2>1
      <2>6. f \in [DOMAIN Without(key) -> DOMAIN cache]
            BY <1>1, <2>4, <2>5
      <2>7. \A i \in DOMAIN Without(key) : Without(key)[i] = cache[f[i]] /\ f[i] # k
            BY <1>1, <2>3, <2>4, <2>5
      <2>8. \A i, j \in DOMAIN Without(key) : f[i] = f[j] => i = j
            BY <1>1, <2>4, <2>5
      <2>. HIDE DEF f
      <2>9. Thinned(Without(key), cache)
            BY <2>6, <2>7, <2>8 DEF Thinned
      <2>10. \A i \in DOMAIN Without(key) : Without(key)[i].key # key
            BY <2>1, <2>6, <2>7 DEF OneForAKey
      <2>. QED BY <1>1, <2>3, <2>9, <2>10
<1>. QED BY <1>2, <1>3

(* Of a cache with one entry for a key, what is left of it has one as well *)
(* and nothing but entries that were there.                                *)
LEMMA ThinnedKeeps ==
    ASSUME NEW s, NEW t, Thinned(t, s), OneForAKey(s)
    PROVE  OneForAKey(t) /\ \A i \in DOMAIN t : \E j \in DOMAIN s : t[i] = s[j]
<1>1. PICK f \in [DOMAIN t -> DOMAIN s] :
         /\ \A i \in DOMAIN t : t[i] = s[f[i]]
         /\ \A i, j \in DOMAIN t : f[i] = f[j] => i = j
      BY DEF Thinned
<1>2. \A i \in DOMAIN t : f[i] \in DOMAIN s
      BY <1>1
<1>3. OneForAKey(t)
      BY <1>1, <1>2 DEF OneForAKey
<1>. QED BY <1>1, <1>2, <1>3

-----------------------------------------------------------------------------
\* No call made so far changes but by being settled, and none is forgotten.
Grown == \A i \in DOMAIN calls : i \in DOMAIN calls' /\ calls'[i] = calls[i]

(* A call made goes to the end of the calls.                               *)
LEMMA CallMade ==
    ASSUME LinksTypeOK, NEW made \in CallRec, calls' = Append(calls, made)
    PROVE  /\ calls' \in Seq(CallRec) /\ Grown
           /\ Len(calls) + 1 \in DOMAIN calls' /\ calls'[Len(calls) + 1] = made
<1>1. calls \in Seq(CallRec) /\ Len(calls) \in Nat /\ DOMAIN calls = 1 .. Len(calls)
      BY LenProperties DEF LinksTypeOK
<1>2. /\ Append(calls, made) \in Seq(CallRec) /\ Len(Append(calls, made)) = Len(calls) + 1
      /\ \A i \in 1 .. Len(calls) : Append(calls, made)[i] = calls[i]
      /\ Append(calls, made)[Len(calls) + 1] = made
      BY <1>1, AppendProperties
<1>3. DOMAIN Append(calls, made) = 1 .. Len(calls) + 1
      BY <1>2, LenProperties
<1>. QED BY <1>1, <1>2, <1>3 DEF Grown

(* What is cached stays so while calls are only made.                      *)
LEMMA CacheStays ==
    ASSUME CacheIsShared, Grown, cache' = cache
    PROVE  CacheIsShared'
BY DEF CacheIsShared, OneForAKey, EntryIsOfItsCall, Grown

(* An element that does not change keeps waiting while calls are only made.*)
LEMMA WaitsOn ==
    ASSUME Grown, NEW h \in Hosts, ElementWaits(elements[h]), elements'[h] = elements[h]
    PROVE  ElementWaits(elements[h])'
BY DEF ElementWaits, Grown

(* link(): the call that is given is of the key, and one that is made is   *)
(* at the end of the cache in the place of the one before.                 *)
LEMMA AskKeeps ==
    ASSUME LinksTypeOK, CacheIsShared, NEW request \in Asked, Ask(request)
    PROVE  /\ cache' \in Seq(EntryRec) /\ calls' \in Seq(CallRec) /\ Grown /\ CacheIsShared'
           /\ Given(request) \in DOMAIN calls' /\ Given(request) \in Nat \ {0}
           /\ Key(calls'[Given(request)].request) = Key(request)
           /\ ~(Given(request) <= Len(calls)) => calls'[Given(request)].settled = ""
           /\ Given(request) <= Len(calls) => Given(request) \in DOMAIN calls
<1>0. /\ cache \in Seq(EntryRec) /\ Len(cache) \in Nat /\ DOMAIN cache = 1 .. Len(cache)
      /\ calls \in Seq(CallRec) /\ Len(calls) \in Nat /\ DOMAIN calls = 1 .. Len(calls) /\ now \in Nat
      BY LenProperties DEF LinksTypeOK
<1>1. CASE Fresh(request)
      <2> DEFINE k == CHOOSE i \in Cached(request) : TRUE
      <2>1. cache' = cache /\ calls' = calls
            BY <1>1 DEF Ask
      <2>2. k \in Cached(request)
            BY <1>1 DEF Fresh
      <2>3. Given(request) = cache[k].call
            BY <1>1 DEF Given, FreshCall
      <2>. HIDE DEF k
      <2>4. k \in DOMAIN cache /\ cache[k].key = Key(request)
            BY <2>2 DEF Cached
      <2>5. cache[k].call \in DOMAIN calls /\ Key(calls[cache[k].call].request) = Key(request)
            BY <2>4 DEF CacheIsShared, EntryIsOfItsCall
      <2>6. Grown
            BY <2>1 DEF Grown
      <2>7. CacheIsShared'
            BY <2>1, <2>6, CacheStays
      <2>8. Given(request) \in DOMAIN calls /\ Given(request) \in Nat \ {0} /\ Given(request) <= Len(calls)
            BY <1>0, <2>3, <2>5
      <2>9. Key(calls[Given(request)].request) = Key(request)
            BY <2>3, <2>5
      <2>. HIDE DEF EntryRec, CallRec
      <2>. QED BY <1>0, <2>1, <2>6, <2>7, <2>8, <2>9
<1>2. CASE ~Fresh(request)
      <2> DEFINE key == Key(request)
                 kept == Without(key)
                 last == [key |-> key, at |-> now, call |-> Len(calls) + 1]
                 all == Append(kept, last)
      <2>1. /\ calls' = Append(calls, [request |-> request, at |-> now, settled |-> ""])
            /\ cache' = Bounded(all)
            BY <1>2 DEF Ask
      <2> DEFINE made == [request |-> request, at |-> now, settled |-> ""]
      <2>m. made \in CallRec /\ made.request = request /\ made.at = now /\ made.settled = ""
            BY <1>0 DEF CallRec
      <2>. HIDE DEF made
      <2>2. calls' \in Seq(CallRec) /\ Grown /\ Len(calls) + 1 \in DOMAIN calls' /\ calls'[Len(calls) + 1] = made
            BY <2>1, <2>m, CallMade DEF made
      <2>n. /\ calls'[Len(calls) + 1].request = request /\ calls'[Len(calls) + 1].at = now
            /\ calls'[Len(calls) + 1].settled = ""
            BY <2>2, <2>m
      <2>3. Given(request) = Len(calls) + 1
            BY <1>2 DEF Given
      <2>4. last \in EntryRec
            BY <1>0 DEF EntryRec
      <2>5. last.key = key /\ last.call = Len(calls) + 1 /\ last.at = now
            OBVIOUS
      <2>6. OneForAKey(cache)
            BY DEF CacheIsShared
      <2>. HIDE DEF key, last
      <2>7. /\ kept \in Seq(EntryRec) /\ Len(kept) \in Nat /\ DOMAIN kept = 1 .. Len(kept)
            /\ Thinned(kept, cache) /\ \A i \in DOMAIN kept : kept[i].key # key
            BY <2>6, WithoutThins, LenProperties
      <2>8. OneForAKey(kept) /\ \A i \in DOMAIN kept : \E j \in DOMAIN cache : kept[i] = cache[j]
            BY <2>6, <2>7, ThinnedKeeps
      <2>. HIDE DEF kept
      <2>9. /\ all \in Seq(EntryRec) /\ Len(all) = Len(kept) + 1
            /\ \A i \in 1 .. Len(kept) : all[i] = kept[i]
            /\ all[Len(kept) + 1] = last
            BY <2>4, <2>7, AppendProperties
      <2>10. DOMAIN all = 1 .. Len(kept) + 1
            BY <2>9, LenProperties
      <2>. HIDE DEF all
      <2>11. \A i \in DOMAIN all : i = Len(kept) + 1 \/ i \in DOMAIN kept
            BY <2>7, <2>10
      <2>12. ASSUME NEW i \in DOMAIN all
             PROVE  /\ all[i].call \in DOMAIN calls' /\ calls'[all[i].call].at = all[i].at
                    /\ Key(calls'[all[i].call].request) = all[i].key
                    /\ calls'[all[i].call].settled # "failed"
             <3>1. CASE i \in DOMAIN kept
                   <4>1. PICK j \in DOMAIN cache : all[i] = cache[j]
                         BY <2>7, <2>8, <2>9, <3>1
                   <4>2. EntryIsOfItsCall(cache[j])
                         BY DEF CacheIsShared
                   <4>. QED BY <2>2, <4>1, <4>2 DEF EntryIsOfItsCall, Grown
             <3>2. CASE i = Len(kept) + 1
                   <4>1. all[i] = last /\ all[i].key = key /\ all[i].call = Len(calls) + 1 /\ all[i].at = now
                         BY <2>5, <2>9, <3>2
                   <4>2. Key(calls'[Len(calls) + 1].request) = key
                         BY <2>n DEF key
                   <4>. QED BY <2>2, <2>n, <4>1, <4>2
             <3>. QED BY <2>11, <3>1, <3>2
      <2>13. ASSUME NEW i \in DOMAIN all, NEW j \in DOMAIN all, all[i].key = all[j].key
             PROVE  i = j
             <3>1. CASE i \in DOMAIN kept /\ j \in DOMAIN kept
                   <4>1. all[i] = kept[i] /\ all[j] = kept[j]
                         BY <2>7, <2>9, <3>1
                   <4>. QED BY <2>8, <2>13, <3>1, <4>1 DEF OneForAKey
             <3>2. CASE i \in DOMAIN kept /\ j = Len(kept) + 1
                   BY <2>5, <2>7, <2>9, <2>13, <3>2
             <3>3. CASE i = Len(kept) + 1 /\ j \in DOMAIN kept
                   BY <2>5, <2>7, <2>9, <2>13, <3>3
             <3>. QED BY <2>11, <3>1, <3>2, <3>3
      <2>14. PICK d \in Nat : \A i \in DOMAIN cache' : i + d \in DOMAIN all /\ cache'[i] = all[i + d]
             BY <2>1, <2>9, BoundedKeeps, BridgeAssumption
      <2>15. cache' \in Seq(EntryRec) /\ Len(cache') <= LINK_CACHE_LIMIT
             BY <2>1, <2>9, BoundedKeeps, BridgeAssumption
      <2>16. DOMAIN cache' = 1 .. Len(cache') /\ Len(cache') \in Nat
             BY <2>15, LenProperties
      <2>17. OneForAKey(cache')
             <3>1. SUFFICES ASSUME NEW i \in DOMAIN cache', NEW j \in DOMAIN cache', cache'[i].key = cache'[j].key
                            PROVE  i = j
                   BY DEF OneForAKey
             <3>2. i + d = j + d
                   BY <2>13, <2>14, <3>1
             <3>. QED BY <2>16, <3>2
      <2>18. CacheIsShared'
             BY <2>12, <2>14, <2>15, <2>17 DEF CacheIsShared, OneForAKey, EntryIsOfItsCall
      <2>19. /\ Given(request) \in DOMAIN calls' /\ Given(request) \in Nat \ {0}
             /\ ~(Given(request) <= Len(calls))
             BY <1>0, <2>2, <2>3
      <2>20. Key(calls'[Given(request)].request) = Key(request) /\ calls'[Given(request)].settled = ""
             BY <2>3, <2>n
      <2>. QED BY <2>2, <2>15, <2>18, <2>19, <2>20
<1>. QED BY <1>1, <1>2

-----------------------------------------------------------------------------
\* What an element is after it has heard of the call it held.
HasItsAnswer(e, element, call) ==
    /\ e \in ElementRec /\ e.mounted /\ e.awaiting = 0 /\ e.request = element.request
    /\ e.due = element.due /\ e.settled.request = element.asked /\ e.settled.of = calls[call].request /\ e.settled.status # ""

(* An element that hears of the call it holds has its answer.              *)
LEMMA HeardHasItsAnswer ==
    ASSUME NEW element \in ElementRec, NEW call \in DOMAIN calls, calls[call].request \in Asked,
           NEW outcome \in Outcomes, element.mounted, element.awaiting = call
    PROVE  HasItsAnswer(Heard(element, call, outcome), element, call)
<1> DEFINE s == [request |-> element.asked, status |-> IF outcome = "linked" THEN "linked" ELSE "declined",
                 of |-> calls[call].request]
           heard == [element EXCEPT !.awaiting = 0, !.settled = s]
<1>1. Heard(element, call, outcome) = heard
      BY DEF Heard
<1>2. s \in SettledRec /\ s.request = element.asked /\ s.of = calls[call].request /\ s.status # ""
      BY DEF SettledRec, ElementRec
<1>. HIDE DEF s
<1>3. /\ heard \in ElementRec /\ heard.mounted /\ heard.awaiting = 0
      /\ heard.request = element.request /\ heard.due = element.due /\ heard.settled = s
      BY <1>2 DEF ElementRec
<1>. HIDE DEF heard
<1>. QED BY <1>1, <1>2, <1>3 DEF HasItsAnswer

(* A call is settled: the entry of a failed one goes, and the elements     *)
(* that hold it have its answer.                                           *)
LEMMA SettleKeeps ==
    ASSUME LinksInv, NEW call \in DOMAIN calls, NEW outcome \in Outcomes, Settle(call, outcome)
    PROVE  LinksInv'
<1>0. /\ LinksTypeOK /\ CacheIsShared /\ \A h \in Hosts : ElementWaits(elements[h])
      /\ calls[call].settled = "" /\ cache' = Kept(call, outcome) /\ now' = now
      /\ elements' = [h \in Hosts |-> Heard(elements[h], call, outcome)]
      /\ OneForAKey(cache)
      BY DEF LinksInv, Settle, CacheIsShared
<1>o. OneForAKey(cache)
      BY <1>0
<1>1. /\ calls \in Seq(CallRec) /\ DOMAIN calls = 1 .. Len(calls) /\ Len(calls) \in Nat
      /\ cache \in Seq(EntryRec) /\ Len(cache) \in Nat /\ elements \in [Hosts -> ElementRec]
      BY <1>0, LenProperties DEF LinksTypeOK
<1> DEFINE over == [calls[call] EXCEPT !.settled = outcome]
<1>2. calls[call] \in CallRec /\ calls[call].request \in Asked
      <2>1. calls[call] \in CallRec
            BY <1>1, ElementOfSeq
      <2>. QED BY <2>1 DEF CallRec
<1>3. /\ over \in CallRec /\ over.request = calls[call].request /\ over.at = calls[call].at
      /\ over.settled = outcome
      BY <1>2 DEF CallRec
<1>4. calls' = [calls EXCEPT ![call] = over]
      BY DEF Settle
<1>. HIDE DEF over
<1>5. /\ calls' \in Seq(CallRec) /\ DOMAIN calls' = DOMAIN calls
      /\ \A i \in DOMAIN calls : calls'[i] = IF i = call THEN over ELSE calls[i]
      BY <1>1, <1>3, <1>4, ExceptSeq
<1>6. \A i \in DOMAIN calls : /\ calls'[i].request = calls[i].request /\ calls'[i].at = calls[i].at
                              /\ i # call => calls'[i].settled = calls[i].settled
      BY <1>3, <1>5
<1>7. calls'[call].settled = outcome
      BY <1>3, <1>5
<1>8. /\ cache' \in Seq(EntryRec) /\ Len(cache') <= Len(cache) /\ Len(cache') \in Nat
      /\ OneForAKey(cache')
      /\ \A i \in DOMAIN cache' : \E j \in DOMAIN cache : cache'[i] = cache[j]
      /\ outcome = "failed" => \A i \in DOMAIN cache' : cache'[i].call # call
      <2> DEFINE key == Key(calls[call].request)
                 its == \E i \in DOMAIN cache : cache[i].key = key /\ cache[i].call = call
      <2>1. \A i \in DOMAIN cache : cache[i].call = call => cache[i].key = key
            BY <1>0 DEF CacheIsShared, EntryIsOfItsCall
      <2>2. CASE outcome = "failed" /\ its
            <3> DEFINE left == Without(key)
            <3>1. cache' = left
                  BY <1>0, <2>2 DEF Kept
            <3>. HIDE DEF key
            <3>2. /\ left \in Seq(EntryRec) /\ Len(left) <= Len(cache)
                  /\ Thinned(left, cache) /\ \A i \in DOMAIN left : left[i].key # key
                  BY <1>0, WithoutThins
            <3>. HIDE DEF left
            <3>3. /\ OneForAKey(left)
                  /\ \A i \in DOMAIN left : \E j \in DOMAIN cache : left[i] = cache[j]
                  BY <1>o, <3>2, ThinnedKeeps
            <3>4. \A i \in DOMAIN left : left[i].call # call
                  BY <2>1, <3>2, <3>3
            <3>5. Len(left) \in Nat
                  BY <3>2, LenProperties
            <3>6. cache' \in Seq(EntryRec) /\ Len(cache') <= Len(cache) /\ Len(cache') \in Nat
                  BY <3>1, <3>2, <3>5
            <3>7. \A i \in DOMAIN cache' : (\E j \in DOMAIN cache : cache'[i] = cache[j]) /\ cache'[i].call # call
                  BY <3>1, <3>3, <3>4
            <3>8. OneForAKey(cache')
                  BY <3>1, <3>3
            <3>. QED BY <3>6, <3>7, <3>8
      <2>3. CASE ~(outcome = "failed" /\ its)
            <3>1. cache' = cache
                  BY <1>0, <2>3 DEF Kept
            <3>2. outcome = "failed" => \A i \in DOMAIN cache : cache[i].call # call
                  BY <2>1, <2>3
            <3>3. OneForAKey(cache) /\ \A i \in DOMAIN cache : \E j \in DOMAIN cache : cache[i] = cache[j]
                  BY <1>0
            <3>4. Len(cache) <= Len(cache) /\ cache \in Seq(EntryRec) /\ Len(cache) \in Nat
                  BY <1>1
            <3>. QED BY <3>1, <3>2, <3>3, <3>4, Zenon
      <2>. QED BY <2>2, <2>3
<1>9. CacheIsShared'
      <2>1. ASSUME NEW i \in DOMAIN cache'
            PROVE  /\ cache'[i].call \in DOMAIN calls' /\ calls'[cache'[i].call].at = cache'[i].at
                   /\ Key(calls'[cache'[i].call].request) = cache'[i].key
                   /\ calls'[cache'[i].call].settled # "failed"
            <3>1. PICK j \in DOMAIN cache : cache'[i] = cache[j]
                  BY <1>8
            <3>2. /\ cache[j].call \in DOMAIN calls /\ Key(calls[cache[j].call].request) = cache[j].key
                  /\ calls[cache[j].call].at = cache[j].at /\ calls[cache[j].call].settled # "failed"
                  BY <1>0 DEF CacheIsShared, EntryIsOfItsCall
            <3>3. cache[j].call = call => outcome # "failed"
                  BY <1>8, <3>1
            <3>. QED BY <1>5, <1>6, <1>7, <3>1, <3>2, <3>3
      <2>2. Len(cache') <= LINK_CACHE_LIMIT
            <3>1. Len(cache) <= LINK_CACHE_LIMIT
                  BY <1>0 DEF CacheIsShared
            <3>. QED BY <1>1, <1>8, <3>1, BridgeAssumption
      <2>. QED BY <1>8, <2>1, <2>2 DEF CacheIsShared, OneForAKey, EntryIsOfItsCall
<1>10. ASSUME NEW h \in Hosts
       PROVE  elements'[h] \in ElementRec /\ ElementWaits(elements[h])'
       <2>1. elements[h] \in ElementRec /\ ElementWaits(elements[h])
             BY <1>0, <1>1
       <2>2. CASE elements[h].mounted /\ elements[h].awaiting = call
             <3>1. elements'[h] = Heard(elements[h], call, outcome)
                   BY <1>0
             <3>2. HasItsAnswer(elements'[h], elements[h], call)
                   BY <1>2, <2>1, <2>2, <3>1, HeardHasItsAnswer
             <3>3. /\ call # 0 /\ Key(calls[call].request) = Key(elements[h].asked)
                   /\ ~elements[h].due => elements[h].asked = elements[h].request
                   <4>1. call # 0
                         BY <1>1
                   <4>. QED BY <2>1, <2>2, <4>1 DEF ElementWaits
             <3>. QED BY <3>2, <3>3 DEF ElementWaits, HasItsAnswer
       <2>3. CASE ~(elements[h].mounted /\ elements[h].awaiting = call)
             <3>1. elements'[h] = elements[h]
                   BY <1>0, <2>3 DEF Heard
             <3>2. elements[h].awaiting # 0 => elements[h].awaiting # call
                   <4>1. SUFFICES ASSUME elements[h].awaiting = call, elements[h].awaiting # 0
                                  PROVE  elements[h].mounted
                         BY <2>3
                   <4>. QED BY <4>1, <2>1 DEF ElementWaits
             <3>. QED BY <1>5, <1>6, <2>1, <3>1, <3>2 DEF ElementWaits
       <2>. QED BY <2>2, <2>3
<1>11. elements' \in [Hosts -> ElementRec]
       BY <1>0, <1>10
<1>12. LinksTypeOK'
       BY <1>0, <1>5, <1>8, <1>11 DEF LinksTypeOK
<1>. QED BY <1>9, <1>10, <1>12 DEF LinksInv

-----------------------------------------------------------------------------
(* An element's effect: it holds the call it is given, or has the answer   *)
(* of one that is settled.                                                 *)
LEMMA EffectKeeps ==
    ASSUME LinksInv, NEW h \in Hosts, Effect(h)
    PROVE  LinksInv'
<1> DEFINE request == elements[h].request
           call == Given(request)
           waiting == [elements[h] EXCEPT !.due = FALSE, !.asked = request, !.awaiting = call]
           answered == call <= Len(calls) /\ calls[call].settled # ""
           after == IF answered THEN Heard(waiting, call, calls[call].settled) ELSE waiting
<1>0. /\ LinksTypeOK /\ CacheIsShared /\ \A g \in Hosts : ElementWaits(elements[g])
      /\ elements[h].due /\ Ask(request) /\ elements' = [elements EXCEPT ![h] = after] /\ now' = now
      BY DEF LinksInv, Effect
<1>1. elements \in [Hosts -> ElementRec] /\ elements[h] \in ElementRec /\ calls \in Seq(CallRec)
      BY <1>0 DEF LinksTypeOK
<1>2. request \in Asked /\ elements[h].mounted
      BY <1>0, <1>1 DEF ElementRec, ElementWaits
<1>3. elements[h].settled.status # "" => Key(elements[h].settled.of) = Key(elements[h].settled.request)
      BY <1>0 DEF ElementWaits
<1>. HIDE DEF request
<1>4. /\ cache' \in Seq(EntryRec) /\ calls' \in Seq(CallRec) /\ Grown /\ CacheIsShared'
      /\ call \in DOMAIN calls' /\ call \in Nat \ {0} /\ Key(calls'[call].request) = Key(request)
      /\ ~(call <= Len(calls)) => calls'[call].settled = ""
      /\ call <= Len(calls) => call \in DOMAIN calls
      BY <1>0, <1>2, AskKeeps
<1>. HIDE DEF call
<1>5. /\ waiting \in ElementRec /\ waiting.mounted /\ ~waiting.due /\ waiting.awaiting = call
      /\ waiting.request = request /\ waiting.asked = request /\ waiting.settled = elements[h].settled
      BY <1>1, <1>2, <1>4 DEF ElementRec, request
<1>. HIDE DEF waiting
<1>6. /\ after \in ElementRec
      /\ after.due => after.mounted
      /\ after.awaiting # 0 => /\ after.mounted /\ after.awaiting \in DOMAIN calls'
                               /\ Key(calls'[after.awaiting].request) = Key(after.asked)
                               /\ calls'[after.awaiting].settled = ""
      /\ after.awaiting # 0 => after.asked = after.request
      /\ after.mounted /\ ~after.due /\ after.awaiting = 0 =>
             after.settled.status # "" /\ after.settled.request = after.request
      /\ after.settled.status # "" => Key(after.settled.of) = Key(after.settled.request)
      <2>1. CASE answered
            <3>1. call \in DOMAIN calls /\ calls'[call] = calls[call] /\ calls[call] \in CallRec
                  BY <1>1, <1>4, <2>1, ElementOfSeq, LenProperties DEF Grown
            <3>2. calls[call].request \in Asked /\ calls[call].settled \in Outcomes
                  BY <2>1, <3>1 DEF CallRec
            <3>3. after = Heard(waiting, call, calls[call].settled)
                  BY <2>1
            <3>. HIDE DEF after
            <3>4. HasItsAnswer(after, waiting, call)
                  BY <1>5, <3>1, <3>2, <3>3, HeardHasItsAnswer
            <3>5. Key(calls[call].request) = Key(request)
                  BY <1>4, <3>1
            <3>. QED BY <1>5, <3>4, <3>5 DEF HasItsAnswer
      <2>2. CASE ~answered
            <3>1. after = waiting
                  BY <2>2
            <3>2. calls'[call].settled = ""
                  BY <1>4, <2>2 DEF Grown
            <3>. HIDE DEF after
            <3>. QED BY <1>3, <1>4, <1>5, <3>1, <3>2
      <2>. QED BY <2>1, <2>2
<1>. HIDE DEF after
<1>7. elements' \in [Hosts -> ElementRec] /\ \A g \in Hosts : elements'[g] = IF g = h THEN after ELSE elements[g]
      BY <1>0, <1>1, <1>6
<1>8. ASSUME NEW g \in Hosts
      PROVE  ElementWaits(elements[g])'
      <2>1. CASE g = h
            BY <1>6, <1>7, <2>1 DEF ElementWaits
      <2>2. CASE g # h
            BY <1>0, <1>4, <1>7, <2>2, WaitsOn
      <2>. QED BY <2>1, <2>2
<1>9. LinksTypeOK'
      BY <1>0, <1>4, <1>7 DEF LinksTypeOK
<1>. QED BY <1>4, <1>8, <1>9 DEF LinksInv

(* An element is rendered, and still holds the call it held until the      *)
(* effect runs; or it is taken away and lets go of it.                     *)
LEMMA ElementKeeps ==
    ASSUME LinksInv, NEW h \in Hosts, Unmount(h) \/ \E request \in Requests : Render(h, request)
    PROVE  LinksInv'
<1>0. /\ LinksTypeOK /\ CacheIsShared /\ \A g \in Hosts : ElementWaits(elements[g])
      /\ UNCHANGED <<now, cache, calls>>
      BY DEF LinksInv, Unmount, Render
<1>1. elements \in [Hosts -> ElementRec] /\ elements[h] \in ElementRec /\ ElementWaits(elements[h])
      BY <1>0 DEF LinksTypeOK
<1> DEFINE Left(e) == /\ elements' = [elements EXCEPT ![h] = e]
                      /\ e.awaiting # 0 => e.awaiting = elements[h].awaiting /\ e.asked = elements[h].asked
                      /\ e.awaiting # 0 => e.mounted
                      /\ e.due = e.mounted
                      /\ e.settled.status # "" => Key(e.settled.of) = Key(e.settled.request)
<1>2. \E e \in ElementRec : Left(e)
      <2>1. CASE Unmount(h)
            <3>1. Unmounted \in ElementRec
                  BY DEF Unmounted, ElementRec, Unsettled, SettledRec, Asked
            <3>2. Unmounted.awaiting = 0 /\ Unmounted.due = Unmounted.mounted /\ Unmounted.settled.status = ""
                  BY DEF Unmounted, Unsettled
            <3>. QED BY <2>1, <3>1, <3>2 DEF Unmount
      <2>2. ASSUME NEW request \in Requests, Render(h, request)
            PROVE  \E e \in ElementRec : Left(e)
            <3> DEFINE e == [elements[h] EXCEPT !.mounted = TRUE, !.request = request, !.due = TRUE]
            <3>1. /\ e \in ElementRec /\ e.mounted /\ e.due = e.mounted /\ e.settled = elements[h].settled
                  /\ e.awaiting = elements[h].awaiting /\ e.asked = elements[h].asked
                  BY <1>1 DEF ElementRec, Asked
            <3>2. elements' = [elements EXCEPT ![h] = e]
                  BY <1>1, <2>2 DEF Render
            <3>. HIDE DEF e
            <3>. QED BY <1>1, <3>1, <3>2 DEF ElementWaits
      <2>. QED BY <2>1, <2>2
<1>3. PICK e \in ElementRec : Left(e)
      BY <1>2
<1>4. elements' \in [Hosts -> ElementRec] /\ \A g \in Hosts : elements'[g] = IF g = h THEN e ELSE elements[g]
      BY <1>1, <1>3
<1>5. Grown
      BY <1>0 DEF Grown
<1>6. ASSUME NEW g \in Hosts
      PROVE  ElementWaits(elements[g])'
      <2>1. CASE g = h
            BY <1>1, <1>3, <1>4, <1>5, <2>1 DEF ElementWaits, Grown
      <2>2. CASE g # h
            BY <1>0, <1>4, <1>5, <2>2, WaitsOn
      <2>. QED BY <2>1, <2>2
<1>7. CacheIsShared'
      BY <1>0, <1>5, CacheStays
<1>8. LinksTypeOK'
      BY <1>0, <1>4 DEF LinksTypeOK
<1>. QED BY <1>6, <1>7, <1>8 DEF LinksInv

(* A call of its own, the clock, and a step that changes nothing.          *)
LEMMA OtherElementsKeep ==
    ASSUME LinksInv,
           (\E request \in Requests : AskAlone(request)) \/ Tick \/ UNCHANGED bridge_vars
    PROVE  LinksInv'
<1>0. LinksTypeOK /\ CacheIsShared /\ (\A g \in Hosts : ElementWaits(elements[g])) /\ UNCHANGED <<cache, elements>>
      BY DEF LinksInv, AskAlone, Tick, bridge_vars
<1>1. now' \in Nat /\ calls' \in Seq(CallRec) /\ Grown
      <2>1. CASE \E request \in Requests : AskAlone(request)
            <3>1. PICK request \in Requests : AskAlone(request)
                  BY <2>1
            <3> DEFINE made == [request |-> request, at |-> now, settled |-> ""]
            <3>2. calls' = Append(calls, made) /\ now' = now
                  BY <3>1 DEF AskAlone
            <3>3. made \in CallRec /\ now \in Nat
                  BY <1>0 DEF CallRec, Asked, LinksTypeOK
            <3>. HIDE DEF made
            <3>. QED BY <1>0, <3>2, <3>3, CallMade
      <2>2. CASE Tick \/ UNCHANGED bridge_vars
            BY <1>0, <2>2 DEF Tick, bridge_vars, Grown, LinksTypeOK
      <2>. QED BY <2>1, <2>2
<1>2. CacheIsShared'
      BY <1>0, <1>1, CacheStays
<1>3. \A g \in Hosts : ElementWaits(elements[g])'
      BY <1>0, <1>1, WaitsOn
<1>4. LinksTypeOK'
      BY <1>0, <1>1 DEF LinksTypeOK
<1>. QED BY <1>2, <1>3, <1>4 DEF LinksInv

(* Before anything was asked for.                                          *)
LEMMA LinksBegin ==
    ASSUME LinksInit
    PROVE  LinksInv
<1>1. Unmounted \in ElementRec
      BY DEF Unmounted, ElementRec, Unsettled, SettledRec, Asked
<1>2. Unmounted.awaiting = 0 /\ ~Unmounted.due /\ ~Unmounted.mounted /\ Unmounted.settled.status = ""
      BY DEF Unmounted, Unsettled
<1>3. LinksTypeOK
      BY <1>1 DEF LinksInit, LinksTypeOK
<1>4. CacheIsShared
      BY BridgeAssumption DEF LinksInit, CacheIsShared, OneForAKey
<1>5. \A h \in Hosts : ElementWaits(elements[h])
      BY <1>2 DEF LinksInit, ElementWaits
<1>. QED BY <1>3, <1>4, <1>5 DEF LinksInv

(* Every step keeps the invariant.                                         *)
LEMMA LinksKeep ==
    ASSUME LinksInv, [LinksNext]_bridge_vars
    PROVE  LinksInv'
<1>1. CASE \E h \in Hosts : Effect(h)
      BY <1>1, EffectKeeps
<1>2. CASE \E h \in Hosts : Unmount(h) \/ \E request \in Requests : Render(h, request)
      BY <1>2, ElementKeeps
<1>3. CASE (\E request \in Requests : AskAlone(request)) \/ Tick \/ UNCHANGED bridge_vars
      BY <1>3, OtherElementsKeep
<1>4. CASE \E call \in DOMAIN calls : Aborted(call) \/ \E answer \in Answers : Answered(call, answer)
      <2>1. \A answer : Outcome(answer) \in Outcomes
            BY DEF Outcome, Outcomes
      <2>2. \E call \in DOMAIN calls, outcome \in Outcomes : Settle(call, outcome)
            BY <1>4, <2>1 DEF Aborted, Answered, Outcomes
      <2>. QED BY <2>2, SettleKeeps
<1>. QED BY <1>1, <1>2, <1>3, <1>4 DEF LinksNext

(* The invariant holds of every reachable state.                           *)
LEMMA LinksInvariance == LinksSpec => []LinksInv
<1>1. LinksInit => LinksInv
      BY LinksBegin
<1>2. LinksInv /\ [LinksNext]_bridge_vars => LinksInv'
      BY LinksKeep
<1>. QED BY <1>1, <1>2, PTL DEF LinksSpec

(* What the invariant says of what is drawn and what is cached.            *)
LEMMA WhatIsDrawn ==
    ASSUME LinksInv
    PROVE  LinksTellTheTruth
<1>1. ASSUME NEW h \in Hosts, elements[h].mounted
      PROVE  /\ Drawn(elements[h]).status \in {"linked", "declined"} =>
                    Key(Drawn(elements[h]).of) = Key(elements[h].request)
             /\ Drawn(elements[h]).status = "loading" =>
                    elements[h].due \/ calls[elements[h].awaiting].settled = ""
      <2>1. elements[h] \in ElementRec /\ ElementWaits(elements[h])
            BY DEF LinksInv, LinksTypeOK
      <2>2. CASE Current(elements[h])
            <3>1. Drawn(elements[h]) = elements[h].settled /\ elements[h].settled.request = elements[h].request
                  BY <2>2 DEF Drawn, Current
            <3>2. elements[h].settled.status \in {"", "linked", "declined"}
                  BY <2>1 DEF ElementRec, SettledRec
            <3>. QED BY <2>1, <3>1, <3>2 DEF ElementWaits
      <2>3. CASE ~Current(elements[h])
            <3>1. Drawn(elements[h]).status = "loading"
                  BY <2>3 DEF Drawn
            <3>2. elements[h].due \/ elements[h].awaiting # 0
                  <4>1. elements[h].settled.status = "" \/ elements[h].settled.request # elements[h].request
                        <5>1. Unsettled.status = ""
                              BY DEF Unsettled
                        <5>. QED BY <2>3, <5>1 DEF Current
                  <4>. QED BY <1>1, <2>1, <4>1 DEF ElementWaits
            <3>. QED BY <2>1, <3>1, <3>2 DEF ElementWaits
      <2>. QED BY <2>2, <2>3
<1>2. /\ Len(cache) <= LINK_CACHE_LIMIT
      /\ \A i \in DOMAIN cache :
             /\ \A j \in DOMAIN cache : cache[i].key = cache[j].key => i = j
             /\ Key(calls[cache[i].call].request) = cache[i].key /\ calls[cache[i].call].at = cache[i].at
             /\ calls[cache[i].call].settled # "failed"
      BY DEF LinksInv, CacheIsShared, OneForAKey, EntryIsOfItsCall
<1>. QED BY <1>1, <1>2 DEF LinksTellTheTruth

(* However late an answer comes and whatever an element asked for before,  *)
(* it draws the answer to what it asks for now, or says that it has none   *)
(* while one is coming; and the promises shared are bounded, one for a key *)
(* and never a failed one.                                                 *)
THEOREM LinksAreOfTheirRequest == LinksSpec => []LinksTellTheTruth
<1>1. LinksInv => LinksTellTheTruth
      BY WhatIsDrawn
<1>. QED BY <1>1, LinksInvariance, PTL
=============================================================================
