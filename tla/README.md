# Verification of the Tactical Fusion plugin

TLA+ models of the stateful parts of the Tactical Fusion plugin for Mattermost, the TLC
runs that check them on small instances, and proofs that TLAPS checks for every size.
File names below are relative to the repository.

1. [The system](#1-the-system)
2. [Modules and the code](#2-modules-and-the-code)
3. [Runs, bounds and fairness](#3-runs-bounds-and-fairness)
4. [What is proved](#4-what-is-proved)
5. [Where code and documentation disagree](#5-where-code-and-documentation-disagree)
6. [What is not modelled, and the plan](#6-what-is-not-modelled-and-the-plan)

## 1. The system

The plugin recognizes tokens (times, coordinates, airfields, frequencies, indicators)
and whole documents (Cursor on Target events, GeoJSON, aviation reports) in chat
messages. A Go process on every node of a Mattermost cluster rewrites or stamps posts as
they are made and answers a JSON API; a webapp in every browser tab draws what was
stamped, and a standalone page shows one coordinate or one document full size.

| part | state it keeps | operations | hard behaviour | what makes it correct |
|---|---|---|---|---|
| preference store (`server/preferences.go`, `preferences_cache.go`) | one blob per reader in the KV store; an LRU with a generation counter on every node | `Get`, `Set`, `Delete`, `HandleClusterEvent`, expiry | reads racing writes; best-effort events lost, late, reordered; failed writes that were applied; restarts | an entry is out of date only while its invalidation is pending or lost; a node never answers older than it acknowledged |
| cyber datasets (`server/cyberdata.go`, `decorators/cyber/intel`) | the installed set of open files, a generation, a refreshing flag, a channel of the open under way, retirement timers | `cyberIntelFor`, refresh, reload, forget, `Set.reading`, `Close` | first open shared by callers; reload or forget under an open or refresh; close under a read | no handle leaks, nothing closed is served, the set ends up being what is on disk |
| map packages (`server/packages.go`, `http.go`, `api.go`) | a directory of archives, a five second memo of its scan | list, serve, install, remove | an upload that dies; scans overlapping writes; settings changing between two reads of them | no half-written archive; the memo follows the writes |
| message hooks (`server/hooks*.go`, `mappost.go`) | none; a post passes through them | `MessageWillBePosted`, `MessageWillBeUpdated` | forged stamps; stages that are off, refuse or panic; edits; configuration changing in between | a stamp is the hook's own, whole and final; the card tells what the message or file says |
| webapp preference store and editors (`webapp/src/preferences`) | per tab: blob, `loadedAt`, `inflight`, `writes`; per editor: the form | load, save a section, reset, toggle | answers out of order, failed fetches, several editors | a load never reverts a save; nothing is saved from settings never read; other sections survive |
| answer caches (`cached_client.ts`, `location/convert.ts`) | per tab: answers by token, requests in flight; per component: hook state | render, effect, reply, unmount | replies between render and effect, eviction, ageing | a panel that stays on a token gets its answer |
| feature, package and archive stores, console controls (`features/store.ts`, `packages/store.ts`, `map/basemap.ts`, `admin`) | one cached answer each, a flight, an age | load, seed, probe, upload, remove, reload | single flight, failed refreshes, late answers | a failure is not taken for an answer |
| sidebar (`index.tsx`, `click_handler.ts`, `selection.ts`, `RhsView.tsx`) | what is registered with the host, the listeners, the selection, the open editors | install, upgrade, remove, click, hover, open, save | two bundles in one tab; a form over another value | a click taken from the browser opens the running bundle's sidebar |
| map (`location/map`) | attempts, their canvas, deadline and archive; frame, camera, overlay, images, seam | render, await, load, error, deadline, focus, pan | awaits overtaken by props; a map that never loads; the antimeridian | every view is answered, nothing of another view is drawn, the frame holds the document |
| documents (`cot`, `geojson`, `avreport`, `airport/route.ts`) | none; a payload is read | card, panel, canvas, page, Show | five surfaces drawing one payload apart | what one claims the others do not contradict |
| coordinates (`location`) | an answer, hidden rows, switches, a copy under way | open, hover, copy, hide, page | rounding carries; a verdict that comes after the click | every notation names the author's cell; the author's words only when vouched for |
| times (`dtg`) | the chosen zones, a draft, a picker | open, remove, pick, save, count down | the normalization of a selection | the table is the one chosen |
| facts (`cyber`, `airport`, `frequency`) | an answer | open, hover, follow, show more | an answer short of a part, or about something else | card, panel and map claim the same of the one asked for |
| bridge client (`bridge`) | a cache of promises, elements | ask, settle, abort, render, unmount | a late failure against a newer entry | a link draws the answer to what it asks for now |
| tagger and decorators (`server/decorators`) | a registry built once | `DecorateWithResult`, pages | pure | no rewrite inside protected text; replacements do not overlap |
| parsers (`server/cot`, `geojson`, `avreport`) | none | parse, build | pure, large | |
| bridge, MCP, commands; lifecycle | an MCP server pointer, the configuration, the fields `OnActivate` assigns | calls of other plugins, tools, slash commands, activation | calls before activation is over | |

How they interact. A post goes hook, stampers, decorators, server, post body in the
webapp; a click or a hover there asks the API through the answer caches; the API reads
the datasets and packages. A preference goes editor, webapp store, API, caching store,
KV store, and a cluster event from there to the other nodes' caches. A configuration
change reloads the datasets, and is read afresh by each hook stage and each scan. A
document's card, sidebar panel, inline map and page read the same props with the same
readers. The boundaries are used in the models as promises: `PreferencesPromise` is what
the caching store is proved to implement. `CachedClient` has the hook of the answer caches
with a cache that evicts and ages; `CyberView` and `LocationReadings` have its renders,
effects and replies again, over what the surfaces make of an answer; `AirfieldView` follows
one airfield only, and leaves the panel that goes on to another to `CachedClient`.

`PROJECT.json` lists every component and every hazard found in the code at its line, with
the properties that cover it.

## 2. Modules and the code

In every module an action is a stretch of code between two points where something else
may run: a lock taken or released, a read of shared state, an `await`, a promise
callback, a render or an effect. `map` in `PROJECT.json` gives the lines of every
definition. Variables marked *ghost* in a module are history that properties talk about
and the code does not keep. A definition that stands right above one of the same
parameters and that `Next` does not reach (`FillAlways` above `StillCurrent`) is that
code with a plausible bug; each property is known to fail with one of them.

### Server

**PreferencesCache** (abstract: **PreferencesPromise**; proofs: **PreferencesCacheProofs**).
A blob is its version. `Lookup`, `CurrentGeneration`, `KVGet`, `FillIfCurrent` are the
four steps of `Get`; `KVWrite`, `InvalidateBump`, `InvalidateRemove`, `InvalidatePublish`
those of `Set` and `Delete`; `HandleBump` and `HandleRemove` those of an event. `DropEvent`
loses one, `Expire` is the LRU's clock, `Restart` is a process that died. The recency
order of the LRU is left open: any entry may be the victim. `PreferencesPromise` has the
same store without caches: a `Get` may return any version between the newest that its
node had acknowledged when it arrived and the stored one.

**CyberDatasets** (proofs: **LookupProofs**). The files on disk and the setting are versions; a set remembers the
ones it was opened from, separately for the scan of sizes (`ScanCandidates`) and for the
opening of the files (`OpenFiles`). Callers take the steps of `cyberIntelFor` and then
read the set they hold under its lock; workers are the goroutines of a refresh, and of a
configuration change, which runs `setConfiguration` and `reloadCyberDatasets`
one after the other. `timers` are the sets given to `time.AfterFunc`. `forgetCyberDatasets`
runs at any time.

**PackageCache** (proofs: **PackageCacheProofs**). A request is a list, a serve, an upload or a removal, with the call of
`mapPackages` it is in: `PackageDirs`, `CachedPackages`, `DropInDir`, `Scan`,
`StorePackages`. An upload goes `CreateTemp`, `Copy`, `Validate`, `Rename` or `Cleanup`,
`ForgetPackages`. A file is whole or half. `Restart` leaves the disk as it was.

**PostHooks** (proofs: **PostHooksProofs**). A message is the shape its scanners see (a fence by its label, a bare
source, a sole token, several, prose) and whether the parser reads it. `RunStamper` is one
stage of `decoratePost` with its strip, its gate, its `recognize` and its recover;
`Recognize` enumerates what a recognizer may answer of a source; `Decorate` ends the hook
and gives the server nil or a post. `MessageWillBeUpdated` is `keepPluginOwnedFields`
applied to any proposed edit. The six readers `...BodyDraws` and `OverlayForPost` are pure.

### What a tab keeps

**WebPreferences** (proofs: **WebPreferencesProofs**). Per tab the module state of `store.ts`, per editor the state of
`HideableEditor` or of the timezone editor (the constant `Picker`, whose picker is not
sealed), and the server's blob. Sending, serving and answering a fetch are separate; a
fetch may fail before or after the server handled it, and an answer in order may come
with a body that does not parse, which `request` reads as a reader who chose nothing
(`AsParsed`, the ghost `parsed`). The write counter is `writes`, and `Outrun` its
comparison. `Synced` is the effect that lets an untouched form follow the
store.

**CachedClient**. The cache in insertion order, the requests in flight, and per component
the rendered token, the hook's state, whether its effect has still to run, and the
request whose reply is `live`. `Expires` tells `cached_client.ts` from `convert.ts`, whose
answers do not age; otherwise the two are the same program.

**TabStores** (proofs: **TabProofs**). Each store is an answer, its age, a flight and what was told to its
subscribers. A flight's landing and its `finally` are two steps, for the promise the
callers share is cleared in a later microtask. The console controls take the steps of
their handlers, and the administrator changes switches, directory and archives under
them.

**Sidebar** (proofs: **TabProofs**). A bundle is one evaluation of `main.js`: its module state outlives
`uninitialize()`, and an upgrade in a live tab brings another. The host's registry and
document are shared by all. `Click` is the capture listener, with the conditions under
which it leaves the click to the browser; the panels' editors are kept by type.

**BridgeLinks** (proofs: **TabProofs**). Calls, their deadline and the promises elements
share; a render, its effect and an answer are separate. An element detaches from the call
of its last request only when the effect of the next one runs, so an answer may reach it in
between, tagged with what that effect had `asked`; `Current` is the comparison of
`Link.tsx` that keeps it from being drawn. `Without` is the `delete`
of the cache's map, `Bounded` its eviction of what was put in first.

**MapInstance** (proofs: **MapInstanceProofs**). `useMapInstance` and `LocationMap`: props change at once (`Show`), the
effects keyed on them run later (`dirty`), an attempt goes through its awaits (`stage`)
and may find itself overtaken (`live`), and MapLibre's load and error and the readiness
deadline come in between. A build fails in one of two ways: what follows the constructor
throws and the map is removed (`BuildFails`), or the constructor itself throws and there
is no map to remove, whatever it had allocated (`ConstructorThrows`). A picture is the view
it was drawn from.

### What the webapp reads, draws and writes out

**MapGeometry**, **MapPicture** (proofs: **SurfaceProofs**). Whole degrees on a map that wraps: the box of the widest
gap, the unwrapped rings, the camera of a link, the paint gate; then one map whose
document grows or is replaced, whose reader pans and zooms, and whose packages decide
which of two tiers draws what. A step applies the frame, the seam, the images and the
overlay as one, because `frame` does: its camera moves without an animation, and MapLibre
fires `moveend` within the call. A reader's gesture is frames (`Pan`) that move the camera
under the layers of where it set out, and an end (`MoveEnd`) that decides the seam.

**CotDocument**, **GeoJsonDocument**, **AirDocument**. The readers of the payloads, each
field by its verdict, and what card, panel and canvas make of an event, a feature, a
report or an airfield. They are operators; **DocumentSurfaces** (proofs:
**SurfaceProofs**) puts a post of each kind
under a reader who switches, edits, presses Show, opens the sidebar and follows the link
of the card, or of the sidebar's map, to the page.

**CoordinateFormat**, **LocationReadings** (proofs: **SurfaceProofs**). Angles are thousandths of a second, and a
floating-point error is `drift`. `WriteOut` gives every notation of one token; the
surfaces add the server's verdict, the hidden rows, the switches, the copy buttons with
their generation, and the page with its fall back. A render and its effects are two steps:
`due` says that effects are owed, which React pays at the latest before it renders again,
and until then a reply, a click on a button or the end of a clipboard write meets those of
the render before. A surface has the link it is drawn for and, beside it, whose answer it
has (`by`) and which request its live effect `waits` for.

**DateTimeGroups**. A zone's rules are its offsets on both sides of one change. A zone
is a name and an identifier, and its key is what the code compares: which is why a zone
picked without a name is stored as another than its option.

**CyberView**, **AirfieldView** (proofs: **LookupProofs**), **FrequencyReading**. An answer
is read field by field (missing and ill-typed are the same), refused as a whole or drawn,
and card and panel are operators over what was read. The indicator's surfaces have the same
`by`, `fresh` and `waits` as a coordinate's, its hook being the same program; `asking` are
the requests under way, and `LookupEffects` the effects. References are ranked, and the order
within a rank is left out. `Follow` leads from one indicator to the next, where the
panel stays mounted; `OpenPosition` from an airfield to its coordinate. **LookupViews**
puts the indicator and the airfield side by side and states what is asked of both.

### Compositions and model values

Parts that share no state are checked in one run as *scenes*: a variable `scene`, fixed
by `Init`, says which part moves, and the others rest in one initial state. A behaviour
of a scene is exactly a behaviour of its part, so a property of the part is a property of
the run. **MCPreferences** has the cluster's caches, a tab's store and the timezone
table; **MCPackageCache** the package directory and, through **TabScenes**, the sidebar,
the bridge links and the stores of a tab; **MCWebLives** panels and a map;
**MCWebSurfaces** everything that is read, drawn and written out. **ReadingsCases**,
**CyberCases**, **AirfieldCases**, **MCDocumentSurfaces** and **MCMapPicture** hold the
model values, chosen at the edges of the code's conditions. Bounds that belong to a scene
and not to a module are comments `\* Bound:` or `\* bound:` at the conjunct that sets them.

## 3. Runs, bounds and fairness

| run | the question | bounds, and why they are enough |
|---|---|---|
| `prefs_cluster` | staleness, read-your-writes, no resurrected entry, and the inductive invariant | 2 nodes, 2 requests, 2 readers of a cache of 1, a write of each blob: the race needs one reader, one writer and one other node; readers share the generation and the room. Longer runs of writes are the proofs' |
| `prefs_live` | the caches implement `PreferencesPromise` and end up current or empty though any event may be lost; the zone table is the one chosen | 1 write, 1 reader; 3 zones of which one cannot be formatted, 2 stored selections, links on both sides of a change of rules |
| `cyber_safety` | handles have one owner each, what is served is no older than the last reload, files never go back | 2 callers, 2 workers, 3 sets (installed, being opened, retired), 1 change each of setting, files, and one forget |
| `cyber_liveness` | callers sharing an open all return; the set served ends up being the one of the setting | 2 callers, 1 worker, 3 sets, 1 change of setting, 1 forget |
| `packages_and_tab` | no half package and no leftovers, memo late only when its scan was overtaken; clicks reach the running bundle's sidebar; links draw their own answer; failures are not answers | 2 requests, 1 name, 2 directories, 1 change from outside; 2 bundles and 3 installs; 2 elements, a cache of 1, 2 calls; lifetimes of 1 and 2 ticks and 1 change of the administrator's |
| `web_lives` | a panel that stays gets its answer; a map shows its own view or says why; a focus is applied once | 2 components, 2 tokens, a cache of 1, so that every answer evicts another; 2 moves between four kinds of view, 1 focus |
| `hooks_posts` | what is stored is whole and final, refusals are told, the message comes first, cards and map page agree | every message, file, forged type and prop; 3 configurations that differ in what a stage asks, one of which may replace another within the hook; 1 edit |
| `web_surfaces` | fifteen properties of what is read, drawn, copied and saved | below |
| `cached_late_reply`, `map_framed`, `dtg_unread`, `prefs_unparsed` | section 5 | the smallest instance that shows it |

`web_surfaces` has ten scenes. *picture*: 2 markers and 1 shape among 3 places and 3
shapes, 2 colors, 4 documents of one point to open with, 2 packages, 2 zooms either side of the seam. *post*: a post of every
kind and flaw in `MCDocumentSurfaces`, at most 3 events and 2 features, one switch off at
a time. *token*: latitudes and longitudes at every carry, with every drift that breaks a
tie. *copying*, *surfaces*: links issued and made by hand, 3 clicks, 1 toggle, and beside
the panel one other surface; *page*: a shell of each sort. *editors*: 2 editors of 2
sections, one of them edited by hand and the other saving what it read or a reset (they
are alike), 2 saves, failing fetches and bodies that do not parse. *indicator*: 2 well-shaped indicators and one that is
not, an answer with each part odd or short, 1 step onward. *airfield*: 2 airfields under
their codes and over 500 answers. *frequency*: a whole number, a fraction and a unit at
every edge of a band. Its properties of a pure function (`ReadingsNameTheirCell`) hold of
every enumerated input in an initial or a next state.

Several properties are conjunctions of named parts, one of each module that has a say:
`HandlesAreOwned` has the refreshing flag, `Converges` of `CyberDatasets` the callers'
return, `FilesNeverGoBack` the grace of a retired set, `MemoSeesAnsweredWrites` the right
directory, `NoStalePin` that of the maps constructed only the component's own is open, the
credit and the notices,
`EveryPanelIsAnswered` that no wait is for a request nobody sent, `FrameIsExact` the link
and the padding, `AuthorsTextIsVouched` the copies and the one pin, `CardAndPanelAgree`
indicators and airfields, `ReadingsNameTheirCell` coordinates and frequencies,
`TheMessageComesFirst` the refusals that are told, `ClicksReachTheSidebar` that a form is
over the item it was opened on.

Counters that would grow for ever are bounded in the guards by the constants named `Max…`,
each at the action that raises it: `MaxVersion` (`KVWrite`), `MaxConf`, `MaxDisk`,
`MaxGeneration` (`Configure`, `ChangeFiles`, `Forget`), `MaxOutside` (`Configure`,
`Edit` and `Restart` of `PackageCache` together), `MaxSaves`, `MaxChoice` (`BeginSave`, `Toggle`),
`MaxChanges` (`SetConfiguration`; the administrator in `TabStores`), `MaxEdits`
(`MessageWillBeUpdated`), `MaxMoves`, `MaxFocus` (`MapInstance`), `MaxClock`
(`TabStores`), `MaxTime`, `MaxCalls` (`BridgeLinks`), `MaxInstalls` (`Sidebar`), `MaxShows` (`PressShow`),
`MaxClicks`, `MaxToggles` (`LocationReadings`), `MaxFollowed` (`Follow`). The preference
cache's generation is not bounded by one: it rises with writes and events, which are, and
the code's is 64 bits wide. Symmetry is used in invariant runs only, never where a
liveness property is checked. Deadlock is not checked where a system may really stop: a
post that is stored and edited to its bound, a tab in which everything that was asked for
is answered and the reader does nothing.

Fairness, and what in the code justifies it:

* A goroutine that can take its next step does (`ReqStep`, `Step`, `CallerStep`,
  `WorkerStep`): Go's scheduler. A browser runs settled promises and effects
  (`FinishLoad`, `SendPut`, `Effect`, the steps of a map attempt).
* Time passes: `Expire`, `Age`, `GraceEnds`, the map's deadline are weakly fair.
* `Done` of `CyberDatasets` is strongly fair: a request reads a bounded number of rows, so
  it cannot go on reading a retired set for ever, which is what lets `Close` have the lock.
* In `cyber_liveness` calls keep coming (`Call` is fair): the code looks at the files
  only when asked for them.
* `CachedClient` and `MapInstance` let every fetch settle, which is an abort timer's doing.
  Of `WebPreferences` no fairness is assumed and no liveness claimed: the fetch of `store.ts`
  carries no signal, so behind a server that never answers a panel loads for ever. What is
  claimed instead is that a panel or an editor that says it is busy has a request out whose
  answer will be taken (`WaitsAreForRequests`).
* Never assumed: that an event is delivered, a request made, a node restarted, a setting,
  a file or a post changed, that a component stays mounted, or that a map loads.

## 4. What is proved

Every theorem holds for every value of its module's constants that the assumptions named
here allow: any number of nodes, tabs, requests, attempts or bundles, and any of the
bounds that TLC needs. The argument is the same everywhere. The property is seldom
inductive: what goes wrong is decided by a step taken earlier, by an actor that still
holds what it read then. `IInv` adds what is known of that actor while it is on its way;
`Init => IInv` and `IInv /\ [Next]_vars => IInv'` give `[]IInv`, which implies the
property. Each `IInv` was checked by TLC before it was proved. A step is split by action;
what an action does to one part of the state is a lemma of its own, so that a conjunct of
`IInv` cites what changed and not how.

| module | theorem | states |
|---|---|---|
| `PreferencesCacheProofs` | `TypeCorrect`, `Invariance` | `[]TypeOK`, `[]IInv` |
| | `Staleness` | `[]StaleOnlyWhileInvalidating` |
| | `ReadYourWrites` | `[]ReadsOwnNodesWrites` |
| | `AnsweredStays` | `[]AnsweredWriteIsNeverUncached` |
| | `Refinement` | `ImplementsPromise` |
| `LookupProofs` | `OwnedHandles` | `[]HandlesAreOwned` |
| | `ReloadWins` | `[]ServedSinceReload` |
| | `NoGoingBack` | `FilesNeverGoBack` (of steps) |
| | `IndicatorsAreOneOnBothSurfaces` | `[]IndicatorIsTheOneAsked` |
| | `AirfieldsAreTheOnesAsked` | `[]AirfieldIsTheOneAsked` |
| | `ViewsShowWhatWasAsked` | `[]CardAndPanelAgree`, which is both |
| `PackageCacheProofs` | `DiskIsClean` | `[]DiskStaysClean` |
| | `MemoTellsTheTruth` | `[]MemoSeesAnsweredWrites` |
| `PostHooksProofs` | `StampsAreWhole` | `[]StampIsWhole` |
| | `StampsAreFinal` | `StampIsFinal` (of steps) |
| | `CardsTellTheTruth` | `[]CardTellsTheTruth` |
| | `TheMessageIsFirst` | `[]TheMessageComesFirst` |
| `WebPreferencesProofs` | `LoadsYieldToSaves` | `[]LoadsNeverRevertASave` |
| | `SavesAreOfWhatWasRead` | `[]SavesComeFromARead`, where no editor has a zone picker; of every other editor anyhow |
| | `OthersAreKept` | `OtherSectionsKept` (of steps) |
| | `WaitsAreMet` | `[]WaitsAreForRequests` |
| `MapInstanceProofs` | `NothingStaleIsDrawn` | `[]NoStalePin` |
| | `FocusesAreSpent` | `FocusIsNotReplayed` (of steps) |
| `TabProofs` | `NothingIsLeftBehind` | `[]ClicksReachTheSidebar` |
| | `FailuresStayFailures` | `[]FailuresAreNotAnswers` |
| | `LinksAreOfTheirRequest` | `[]LinksTellTheTruth` |
| `SurfaceProofs` | `TheAuthorIsVouchedFor` | `[]AuthorsTextIsVouched` |
| | `PagesShowWhatWasSent` | `[]PageShowsTheServersReadings` |
| | `LinksLeadToTheCard` | `PageDrawsTheCard` (of steps) |
| | `TheSidebarHasTheCard` | `PanelCarriesTheCard` (of steps) |
| | `NoSeamShows` | `[]SeamIsWhole` |
| | `PinsHaveImages` | every image the pins name is registered, a part of `DrawnAsStated` |
| | `LinksReadBack`, `PaddingLeavesHalf` | two parts of `FrameIsExact`, of every camera and every canvas and not of those of the run |

*What is assumed of the constants.* As little as the proof needs, by name, in the
module that declares them: of the preference cache that users are a finite non-empty set,
for the counting of entries, the capacity positive and the
bound on versions a number (`SetsAssumption`, `BoundsAssumption`); of the datasets that
callers and workers are finite sets, for the counting of references
(`FiniteAssumption`, `NilAssumption`, `BoundsAssumption`); of the packages that there is a
name, that the bundled ones are names and that the empty setting is no directory
(`NamesAssumption`, `NoDirAssumption`, `BoundsAssumption`); of the hooks what a
configuration and a message are (`SettingsAssumption`, `MessagesAssumption`,
`NilAssumption`, `BoundsAssumption`); of the tab's editors that each has a tab and a
section (`EditorAssumption`); of the views of a map that their kinds are disjoint and that
a token being converted has no place (`ViewsAssumption`); of the sidebar that the panels
with an editor are panels (`SidebarAssumption`); of the links that limit and lifetime are
numbers (`BridgeAssumption`); of the stores that no area the server takes has an empty name,
and that what ships is such areas (`StoresAssumption`); of a map that its camera's zooms end
where the code ends them and that its points have its colors (`PictureAssumption`); of posts
that they are of the four kinds and that one stamped from a file has a `fileId`, which
`hooks_cot.go:139` and `hooks_geojson.go:189` put there (`PostsAssumption`); of a
coordinate's links that the mark of a closed surface is none of them (`LinkAssumption`).
Nothing more is assumed of what a link, an indicator or an airfield is: the readers under
proof are what decides that. TLC evaluates each of them on a run.

*The preference cache.* What a cache will hold is decided by a read on its way to
`FillIfCurrent`. `FillCurrent`: one that would still be installed holds the stored
version, or there is a bump ahead that will stop it or a Remove behind that bump that
will undo it, or the invalidation is lost. `FillSettled`: it holds nothing that its own
node has already removed or answered. `CacheSettled`: between its Remove and its publish,
a writer's node holds nothing older than the write. `ReadSettled`: a read brings nothing
older than its caller may expect. `VersionsOrdered`: nothing is newer than the store. The
order of the code matters in exactly two places of the proof: `bumpGeneration` before
`Remove` (in `FillSettled`, for the step from bump to remove) and the generation read
before the KV read (in `FillCurrent`, for the KV write's step). `Refinement` maps a
request to a call by `CallOf`: four actions of the cache (`Lookup` on a hit,
`FillIfCurrent`, `KVWrite`, `InvalidatePublish`) are steps of the promise, `Begin`,
`Finish` and `Restart` map to `Arrive`, `Return` and `Cut`, and the others stutter.

*The datasets.* `Ownership` says at every step of a goroutine who holds the set value it
opened: it alone until it installs it (`CallersFetchAlone`, `WorkersFetchAlone`), then the
pointer, then one timer. `Generations` is what the counter tells apart: an opener that is
not overtaken still finds no set installed (`OneOpener`), a refresh that is not overtaken
finds one, has the flag and is the only one (`RefreshIsTheOnlyOne`), and what it is about
to install is no older than what it displaces (`RefreshIsNewer`). A reload that forgot to
raise the generation breaks the last two.

*The packages.* `OnDisk` follows an upload: only what was found whole is renamed
(`ValidatedFirst`). `InLists` follows a name from the disk through a request's scan to the
memo: at each of them it is one the directory of that scan has held (`ScanIsOfItsDir`),
and one that it holds now unless a write came in between (`ScanIsCurrent`), which is the
excuse the memo then carries (`MemoIsCurrent`).

*The hooks.* `BetweenStages`: from the second stage on the post has no field the plugin
owns, and the result is nil or that post; so what is stored has only what one stage put
there (`StoredIsStamped`). `RefusalsToldSoFar` counts the stages that are over: a format
the author named, which was on and refused, was told of when its stage passed.

*The tab's settings.* `TabCurrent`: a load whose start no write of its tab has outrun
brings nothing older than what a save there was told of. `BodyCurrent`: the body of a save
that is in the air is the stored one, but for its own section and those written since it
was re-read, if what was re-read parsed. `FormRead`: once the tab has read its settings or the reader has touched the
form, it was filled in by a completed read; the timezone editor (`Picker`) is excepted, as
the code excepts it (`dtg_unread`). `WaitsAreForRequests` is inductive nearly as it stands:
`loading` is set with the request it is about, and cleared by a save in the step in which
that save outruns it.

*The map.* `OneLife`: at most one attempt may change anything, the live one, and only
while there is no map; the canvas that is open is that of the map there is. A context that a
throwing constructor left behind is in nobody's hands, and no part of the claim. `DrawnIsCurrent`
and `CreditIsCurrent` say of a ready map what it draws once the effects have run.

*The sidebar.* `OneBundle`: the listener, the stylesheet, the global and the registration
are the running bundle's, each once, and its disposers know all four, so that they leave
nothing behind. `ModuleState`: a bundle counts as installed exactly while it runs, which
is why the next `initialize()` of either bundle installs everything again. What a click
opens then follows, for the one listener is the running bundle's.

*The stores.* Each has a part of the invariant of its own, for no action moves two of them.
`SwitchesInOrder`: there is an answer exactly when there is an age that says so, which is
what `OnFailure` goes by. `UploaderInOrder`: a mounted control is busy exactly while its
write is under way, and what it may remove is a subset of what it lists; that a removal
is under a name the server takes follows from the directory (`AreasInOrder`), for the list
is the server's.

*The links.* `CacheIsShared`: an entry is of the call that was made for its key, which has
not failed, and no two have one key; the failure of a call that a newer one has replaced
takes nothing away, for it looks for its own promise. `ElementWaits`: the call an element
holds is of the request its live effect `asked` and under way; that is the request it is
rendered for unless it owes an effect, and an element that holds none and owes none has its
answer. What a late answer leaves is tagged with another request than the one rendered,
which is why nothing of it is drawn.

*A coordinate.* A copy and its acknowledgment cannot be judged by the state they end in,
for the rendering a value was taken from may be gone. `Sound` is said of every value under
way: what is the author's or the server's came by the answer to an issued link.
`CopiesAreSound`: a live write is of the text its button has, or had when its effect last
ran, so that "Copied" outlasts that effect under no other. `SurfacesWait`: what panel, card
and map have is the server's verdict on the link it was asked of (`by`); on the panel, which
is not mounted anew, that may be the link of before, but only while the panel's own effect
or request is still to answer. One pin in one place follows, for two surfaces that know
their place by their own answer read it from one link. A page has no such history:
`PagesShowWhatWasSent` is a matter of cases, of the token's format, of the mode and of how
whole the conversion is.

*A document and its surfaces.* A page is drawn from the stored post by its own reader, long
after the link was taken. `PostIsRead`: as long as the props are there, what the card draws
is what the reader makes of the stamp. `PanelIsOfACard`: the panel was opened from a card
that had a document to show. `LinkIsOfACard`: a link was taken from such a card or panel,
which had a map, whatever was edited or switched since, so that what the server finds in the post
(`ServedIsShown`) is what the card was read from. `PanelCarriesTheCard` has no invariant of
its own: per kind of document, what the card states is a line of the detail, and every line
of the detail is in a group of the panel (`PanelShowsTheDetail`, `PanelShowsTheClass`).

*The seam.* `PictureInv`: the reach of the global tier is one of its two values, and once
the camera rests it is the decision for the box in view, whichever step moved it; the images
are those of all documents so far. Which
layers draw at a zoom is then arithmetic on their limits (`DrawnConcerns`).

*Indicators and airfields.* `ReadIsReady`, `AnswerIsRead`: an answer on a surface was
judged for the indicator it was asked of (`by`), or the airfield the surface is opened for,
though it was asked for by another surface or found in the cache. `ListensToItsOwn`: that
indicator is the surface's own, and the surface is past its loading, unless its effect is
still to run or its own request to answer; a card, mounted anew for every token, listens to
nothing else (`CardsOwn`). What card and panel make of one answer then
agrees for every answer that passes the reader (`CardClaims`, `PanelLeads`): `Readable` asks
just enough of it. `LedToThePlace`: where the reader was led is the place of the answer,
which nothing replaces.

Three things came out of the attempts. A `CASE` whose guards overlap has no fixed value in
TLA+, though TLC takes the first that holds: the order in which a listener tells a page
from a sidebar, and a map its notices apart, is now an IF, as it is in the code. The
links' cache had been thinned by a filter on the call; it is now the map's `delete` by key
behind the comparison of promises, which is what makes a late failure harmless. And the
position of an airfield had been whatever known position had its format and value, one or
several; it is now that very pair, if it is one the reader knows.

Model-checked only. Liveness under fairness (`Converges`, `EveryPanelIsAnswered`, `EveryViewIsAnswered`) and anything with ENABLED is beyond the
prover, as is induction over data: the widest gap, the unwrapped rings and the frame of a
map (`FrameIsExact`, `DrawnAsStated` but for the parts above, `ShowGoesSomewhere`) and the
shapes of documents (`ShapesAreWhole`) are folds over positions. The zone table
(`TableIsWhatWasChosen`) is sorted and filtered sequences, and the notations of a coordinate
and a frequency (`ReadingsNameTheirCell`, which is `NotationsNameTheCell` and
`FrequencyIsTheOneWritten`) are divisions by powers that depend on the digits written: TLC
enumerates them. No module declares a RECURSIVE operator; the folds of the community modules
are used throughout.

## 5. Where code and documentation disagree

Each is a run whose one property is a sentence of the repository, and which TLC refutes.

* `cached_late_reply`: a reply is said never to be written onto the next coordinate. It is,
  when it lands between the render and the effect. If the next coordinate's own answer is cached,
  the effect that follows puts it right; if not, the effect only sends a request, and the
  wrong answer stays until that one is answered. (`web_lives`: every panel that stays on a
  coordinate gets its own answer in the end.) What it amounts to is in the properties of the
  surfaces: the words of a link made by hand may be shown, with a copy button, by the verdict
  on the issued link before it (`AuthorsTextIsVouched` asks that the verdict be an issued
  link's, and the panel's own once its request is answered), and an indicator's panel may show
  the answer to the one before under its own heading (`CardAndPanelAgree`). Cards and inline
  maps are mounted anew and are spared.
* `map_framed`: an extent-only map is said to frame its overlay. One that goes on to a
  document of a single marker and no shape has no box and no position to fall back on, and
  stays where it was. (`web_surfaces`: every document that has a box is framed exactly.)
* `dtg_unread`: nothing is said to be editable until a read has succeeded. The timezone
  picker is: a pick made after a failed first read keeps its draft of the defaults when a
  later read arrives and unseals Save. (`web_surfaces`: the other editors are sealed.)
* `prefs_unparsed`: a save is said to leave every other decorator's settings alone. If its
  re-read is answered in order but with a body that does not parse, `request` takes it for a
  reader who chose nothing, and the write that follows clears the other sections.
  (`web_surfaces`: nothing else clears them but the documented window below.)

More show in the statement of a property rather than in a run.
`MemoSeesAnsweredWrites` excepts a scan that overlapped the write: a list that scanned
before an upload and stores after it brings the old list back for five seconds, where
`server/packages_test.go` expects an upload to be visible at once. `OtherSectionsKept`
excepts what another save wrote between a save's re-read and its write, the window
`store.ts` documents; on a cluster the re-read itself may come from a cache that missed an
event. `TheMessageComesFirst` excepts a restriction on a single line, which loses its card
to an attachment, and a cot fence that cannot be read beside a `.geojson` attachment,
which does not end the attempt. `SeamIsWhole` excepts the frames of a gesture at the seam and above
it: `maplibre.ts:651-654` says that nothing is ever drawn twice, but the reach of the global
layers is decided on `moveend` only, so a drag out of a package's area is drawn with the
layers of where it set out until it ends. `NoStalePin` excepts what the constructor of a map
allocated before it threw: the comment at `use_map_instance.ts:607-609` is about releasing it,
and `instance` was never assigned. `AuthorsTextIsVouched` excepts the frames between another
text on a button and its effect, which may still say "Copied". And the zone picker's list is
said to lose what was just added (`ZonePicker.tsx:124-125`), where a zone picked without a
name is stored under its city's, which is another key, and stays in the list. And some things are as the code has them without anything
saying otherwise: a related link of the cyber panel is checked for its kind and not for
its shape, so a malformed one opens a panel that the server refuses; a card that shows
only badges or a headline carries no credits; a Summary unfolded for one indicator stays
unfolded for the next one that is cached.

## 6. What is not modelled, and the plan

Abstracted in the modules: the text of messages and the grammars that read it; the bytes
of archives, datasets and documents; the sizes of props, as whether some rung of the
ladder fits; the wording of answers, rows and logs; layout, styles and icons; HTTP routing
and sessions; what MapLibre and the browser's calendar and clipboard do inside. A
coordinate in a grid is a model value: its projection is the server's. Left out: an
editor that is replaced while its save is in the air (the save ends in the store as it
would have); two plugin processes of one node; the KV store's own replication; what a
host does with a component between two renders.

Not modelled at all, and why:

* The tagger and the token decorators of the server, the parsers of the three document
  formats and the dataset files: pure functions over text and bytes, whose cases are
  grammars. What the rest relies on of them is their verdict, which every module
  enumerates. The overlap resolution of the tagger and the binary search of a dataset are
  the two that would repay a reference definition.
* MCP tools and slash commands: wrappers over those functions.
* The server's side of the bridge: stateless.
* The order of `OnActivate`: whether the host dispatches before it returns is not visible
  in this repository.
* Test harnesses (`*Harness.tsx`, `*.pw.tsx`, `*.spec.ts`), types of the host and build
  tools.

What remains of the plan, by the weight of what can go wrong: a statement of the zone table
and of the widest gap that needs no induction, and their proofs; the parts of the notations
of a coordinate that are linear once the number of digits is fixed; the tagger's intervals and
the dataset search as operators against a reference; a composition of `PreferencesCache`
with `WebPreferences` through `PreferencesPromise`.
