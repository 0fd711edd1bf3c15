------------------------------- MODULE Sidebar -------------------------------
(***************************************************************************)
(* What the plugin puts into a tab and takes out of it again, and where a  *)
(* click on one of its links goes: webapp/src/index.tsx, the registry, the *)
(* delegated click listener, the theme it hands to the standalone page,    *)
(* the selection that the sidebar observes, and the editor stores.         *)
(*                                                                         *)
(* A bundle is one evaluation of main.js: its module state outlives        *)
(* uninitialize(), and a plugin upgrade in a live tab brings another one.  *)
(* The document and Mattermost's component registry are shared by all.     *)
(***************************************************************************)
EXTENDS Integers, Sequences, FiniteSets, SequencesExt

CONSTANTS
    MaxBundles,    \* bound on the bundles a tab loads
    MaxInstalls,   \* bound on the calls of initialize()
    Links,         \* [origin, path, href, type, payload, page, rel]: the anchors of the tab
    Backgrounds,   \* [root, body]: what --center-channel-bg can be on the two
    EditorTypes    \* the panels with a "Customize your view" editor

Bundle == 1 .. MaxBundles
Types == {"dtg", "location", "note", "cot"}   \* what this build has panels for

ASSUME SidebarAssumption == MaxBundles \in Nat /\ MaxInstalls \in Nat /\ EditorTypes \subseteq Types

\* What the sidebar shows: one type's payload; fromParams refuses payload 0.
Item == [type : Types, payload : Nat]
NoItem == [type |-> "none", payload |-> 0]

VARIABLES
    running,     \* the bundle whose plugin instance Mattermost holds, or 0
    latest,      \* the newest bundle evaluated
    installs,    \* initialize() calls so far
    disposers,   \* what the running instance will release
    module,      \* each bundle's module state
    listening,   \* the capture listeners on document, in order
    style, global,   \* whose stylesheet and window.TacticalFusion stand, or 0
    components,  \* the bundles with components in Mattermost's registry
    open,        \* whose sidebar the web app shows, or 0
    view,        \* RhsView and RhsTitle: mounted, and their useSelection
    editedOn,    \* ghost: the item each editor was opened on
    saving,      \* the editors that a save will close
    page         \* the anchor as the last click for the standalone page left it

bundle_vars == <<running, latest, installs, disposers, module, listening, style, global, components>>
panel_vars  == <<open, view, editedOn, saving>>
sidebar_vars == <<bundle_vars, panel_vars, page>>

NewModule == [panels |-> {}, installed |-> FALSE, store |-> FALSE, selection |-> NoItem, editing |-> {}]
Closed == [state |-> "closed", shown |-> NoItem]
NoPage == [theme |-> "none", window |-> "none", rel |-> {}]

SidebarInit ==
    /\ running = 0 /\ latest = 1 /\ installs = 0 /\ disposers = {}
    /\ module = [b \in Bundle |-> NewModule]
    /\ listening = <<>> /\ style = 0 /\ global = 0 /\ components = {}
    /\ open = 0 /\ view = Closed /\ editedOn = [t \in EditorTypes |-> NoItem] /\ saving = {}
    /\ page = NoPage

-----------------------------------------------------------------------------
(* registerBuiltinDecorators and the three panels: what is there already   *)
(* is skipped, since the table outlives a re-registration.                 *)
Registered(m) == [m EXCEPT !.panels = Types]

(* The two idempotent installs: the listener by its module's flag, the     *)
(* stylesheet by the element in the document.                              *)
InstallsListener(b) == ~module[b].installed
InstallsStyle == style = 0

(* initialize(), on the same bundle again or on a newer one.               *)
Initialize(b) ==
    /\ running = 0 /\ installs < MaxInstalls
    /\ b \in {latest, latest + 1} \cap Bundle
    /\ running' = b /\ latest' = b /\ installs' = installs + 1
    /\ module' = [module EXCEPT ![b] = [Registered(@) EXCEPT !.installed = TRUE, !.store = TRUE]]
    /\ components' = components \cup {b}
    /\ listening' = IF InstallsListener(b) THEN Append(listening, b) ELSE listening
    /\ style' = IF InstallsStyle THEN b ELSE style
    /\ global' = b
    /\ disposers' = {"components", "global"}
          \cup (IF InstallsListener(b) THEN {"listener"} ELSE {})
          \cup (IF InstallsStyle THEN {"style"} ELSE {})
    /\ UNCHANGED <<panel_vars, page>>

\* As it was before the disposers: the listener is left behind.
ReleaseAllButTheListener == disposers \ {"listener"}

Release == disposers

\* removeEventListener: a bundle's listener, if it is there.
Silenced(b) ==
    IF b \in ToSet(listening) THEN RemoveAt(listening, CHOOSE i \in DOMAIN listening : listening[i] = b)
    ELSE listening

(* uninitialize(): every disposer, and with the components the sidebar.    *)
Uninitialize ==
    /\ running # 0
    /\ running' = 0 /\ disposers' = {}
    /\ components' = IF "components" \in Release THEN components \ {running} ELSE components
    /\ listening' = IF "listener" \in Release THEN Silenced(running) ELSE listening
    /\ module' = IF "listener" \in Release THEN [module EXCEPT ![running].installed = FALSE] ELSE module
    /\ style' = IF "style" \in Release THEN 0 ELSE style
    /\ global' = IF "global" \in Release /\ global = running THEN 0 ELSE global
    /\ open' = 0 /\ view' = Closed
    /\ UNCHANGED <<latest, installs, editedOn, saving, page>>

-----------------------------------------------------------------------------
\* parseColor: three hex digits are doubled, rgb() is taken as it is.
Rgb(color) ==
    CASE color.form = "hex3" -> [i \in 1 .. 3 |-> 17 * color.parts[i]]
      [] color.form \in {"hex6", "rgb"} -> color.parts
      [] OTHER -> <<>>

\* themeForBackground: the Rec. 601 luma, in thousandths of 255.
ThemeForBackground(color) ==
    LET c == Rgb(color)
    IN  IF c = <<>> THEN "unknown"
        ELSE IF 2 * (299 * c[1] + 587 * c[2] + 114 * c[3]) < 255000 THEN "dark" ELSE "light"

\* detectTheme: the root element is asked before the body.
DetectTheme(background) ==
    IF ThemeForBackground(background.root) # "unknown" THEN ThemeForBackground(background.root)
    ELSE ThemeForBackground(background.body)

\* withTheme, PAGE_TARGET and pageLinkRel: a named window is only honored by
\* an anchor that does not demand a fresh one.
PageAnchor(link, background) ==
    [theme |-> DetectTheme(background), window |-> "tactical-fusion-decorator-page",
     rel |-> link.rel \ {"noopener", "noreferrer"}]

\* parseDecoratorHref: this origin, this plugin's prefix, one path segment.
Parsed(link) == link.origin = "own" /\ link.path = "decorate"

Usable(b, link) == link.type \in module[b].panels /\ link.payload # 0

\* The editor of a panel closes when the panel mounts or its payload changes.
LayoutEffect(from, item, editing) == IF from = item THEN editing ELSE editing \ {item.type}

\* setSelection: the observers of that bundle follow at once.
Select(b, item) ==
    LET follows == view.state = "live" /\ open = b
        editing == IF follows THEN LayoutEffect(view.shown, item, module[b].editing)
                   ELSE module[b].editing
    IN  /\ module' = [module EXCEPT ![b] = [module[b] EXCEPT !.selection = item, !.editing = editing]]
        /\ view' = IF follows THEN [view EXCEPT !.shown = item] ELSE view

\* openRhs, and the web app mounts another bundle's sidebar from nothing.
OpenRhs(b) == open' = IF module[b].store THEN b ELSE open

\* What a listener makes of a click that nobody before it has prevented.
Takes(b, link, modified) ==
    IF modified \/ ~Parsed(link) THEN "browser"
    ELSE IF link.page THEN "page"
    ELSE IF Usable(b, link) THEN "sidebar" ELSE "browser"

\* stopPropagation does not keep a click from the other listeners of the
\* same node, but preventDefault does: the first one to dispatch it wins.
Takers(link, modified) ==
    {i \in DOMAIN listening : Takes(listening[i], link, modified) = "sidebar"}
FirstTaker(link, modified) ==
    listening[CHOOSE i \in Takers(link, modified) : \A j \in Takers(link, modified) : i <= j]

(* A click on an anchor.                                                   *)
Click(link) ==
    /\ Takers(link, FALSE) # {}
    /\ LET b == FirstTaker(link, FALSE)
       IN  Select(b, [type |-> link.type, payload |-> link.payload]) /\ OpenRhs(b)
    /\ UNCHANGED <<running, latest, installs, disposers, listening, style, global, components,
                   editedOn, saving, page>>

(* A click for the standalone page: the browser follows the anchor, which  *)
(* every listener has rewritten in the reader's theme.                     *)
ClickForPage(link, background) ==
    /\ \E i \in DOMAIN listening : Takes(listening[i], link, FALSE) = "page"
    /\ page' = PageAnchor(link, background)
    /\ UNCHANGED <<bundle_vars, panel_vars>>

(* showCotEvent and its like: a card's button, drawn by the running bundle.*)
Show(item) ==
    /\ running # 0 /\ item.type \in module[running].panels
    /\ Select(running, item) /\ OpenRhs(running)
    /\ UNCHANGED <<running, latest, installs, disposers, listening, style, global, components,
                   editedOn, saving, page>>

-----------------------------------------------------------------------------
(* The web app mounts the header and the body of the open sidebar.         *)
MountSidebar ==
    /\ open \in components /\ view.state = "closed"
    /\ view' = [state |-> "rendered", shown |-> module[open].selection]
    /\ module' = [module EXCEPT ![open].editing = LayoutEffect(NoItem, module[open].selection, @)]
    /\ UNCHANGED <<running, latest, installs, disposers, listening, style, global, components,
                   open, editedOn, saving, page>>

(* Their effects subscribe: a selection since the render was missed.       *)
Subscribe ==
    /\ view.state = "rendered"
    /\ view' = [view EXCEPT !.state = "live"]
    /\ UNCHANGED <<bundle_vars, open, editedOn, saving, page>>

(* The reader closes the sidebar.                                          *)
CloseSidebar ==
    /\ open # 0
    /\ open' = 0 /\ view' = Closed
    /\ UNCHANGED <<bundle_vars, editedOn, saving, page>>

Editing == view.state # "closed" /\ view.shown.type \in module[open].editing

\* setEditing of the panel shown.
SetEditing(editing) == module' = [module EXCEPT ![open].editing = editing]

(* "Customize your view".                                                  *)
Customize ==
    /\ view.state = "live" /\ view.shown.type \in EditorTypes /\ ~Editing
    /\ SetEditing(module[open].editing \cup {view.shown.type})
    /\ editedOn' = [editedOn EXCEPT ![view.shown.type] = view.shown]
    /\ UNCHANGED <<running, latest, installs, disposers, listening, style, global, components,
                   open, view, saving, page>>

(* Back.                                                                   *)
Back ==
    /\ Editing
    /\ SetEditing(module[open].editing \ {view.shown.type})
    /\ UNCHANGED <<running, latest, installs, disposers, listening, style, global, components,
                   open, view, editedOn, saving, page>>

(* A save is begun in the editor; when it is done it closes the editor of  *)
(* its type, whichever item that has been opened on since.                 *)
BeginSave ==
    /\ Editing /\ saving = {}
    /\ saving' = {<<open, view.shown.type>>}
    /\ UNCHANGED <<bundle_vars, open, view, editedOn, page>>

EndSave ==
    /\ saving # {} /\ saving' = {}
    /\ module' = [b \in Bundle |->
                    [module[b] EXCEPT !.editing = @ \ {t \in EditorTypes : <<b, t>> \in saving}]]
    /\ UNCHANGED <<running, latest, installs, disposers, listening, style, global, components,
                   open, view, editedOn, page>>

SidebarNext ==
    \/ \E b \in Bundle : Initialize(b)
    \/ Uninitialize \/ MountSidebar \/ Subscribe \/ CloseSidebar
    \/ Customize \/ Back \/ BeginSave \/ EndSave
    \/ \E link \in Links : Click(link) \/ \E background \in Backgrounds : ClickForPage(link, background)
    \/ \E link \in Links : Show([type |-> link.type, payload |-> link.payload])

SidebarSpec == SidebarInit /\ [][SidebarNext]_sidebar_vars

-----------------------------------------------------------------------------
(* DecoratorHoverCard: the links that a hover card is drawn for.           *)
HasCard(link) == Parsed(link) /\ Usable(running, link)

(* buildDecoratorStyles: a chip for the types of the bundle whose sheet    *)
(* stands, on the root-relative form of the link only.                     *)
HasChip(link) == Parsed(link) /\ link.href = "rooted" /\ link.type \in module[style].panels

\* An editor is only ever shown over the item it was opened on.
EditorIsOfItsItem == Editing => editedOn[view.shown.type] = view.shown

(* Whatever sequence of installs, upgrades and removals a tab went         *)
(* through, what stands in it is the running bundle's and nothing else: a  *)
(* click that is taken from the browser opens a sidebar that is            *)
(* registered, with the panels of the bundle that is asked for it, every   *)
(* link with a card or a chip is one the plugin takes, and a link for the  *)
(* standalone page goes to the one window those pages share. And what the  *)
(* reader then sees is the value clicked, not a form opened on another.    *)
ClicksReachTheSidebar ==
    LET held == IF running = 0 THEN {} ELSE {running}
    IN  /\ EditorIsOfItsItem
        /\ components = held /\ ToSet(listening) = held /\ Len(listening) = Cardinality(held)
        /\ {style, global} = IF running = 0 THEN {0} ELSE {running}
        /\ \A link \in Links, modified \in BOOLEAN :
               Takers(link, modified) # {} => FirstTaker(link, modified) \in components
        /\ running # 0 => \A link \in Links :
               HasCard(link) \/ (HasChip(link) /\ link.payload # 0) =>
                   Takes(running, link, FALSE) = IF link.page THEN "page" ELSE "sidebar"
        /\ page # NoPage => page.rel \cap {"noopener", "noreferrer"} = {}

=============================================================================
