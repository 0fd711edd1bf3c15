------------------------------- MODULE TabStores -------------------------------
(***************************************************************************)
(* The small stores of a tab, each one question to the server shared by    *)
(* every surface that asks it: which surfaces are on (features/store.ts),  *)
(* which detail areas there are (packages/store.ts), whether an archive is *)
(* one (decorators/location/map/basemap.ts); and the two System Console    *)
(* controls that list what the server has (admin/PackageUploader.tsx,      *)
(* admin/CyberDatasets.tsx).                                               *)
(***************************************************************************)
EXTENDS Integers, Sequences, FiniteSets

CONSTANTS
    FEATURES_TTL, PACKAGES_TTL,   \* how long an answer is fresh
    SEAM_ZOOM, DATA_MAX_ZOOM,     \* where the detail tier begins, how deep the global one is
    Names,                        \* the areas there may be
    Misnamed,                     \* those of them PACKAGE_NAME refuses
    Shipped,                      \* those that ship with the plugin
    Headers,                      \* [whole, magic, version, tile, min, max]: what a file may begin with
    MaxClock, MaxChanges          \* bounds on the clock and on what the admin does elsewhere

ASSUME StoresAssumption ==
    /\ {FEATURES_TTL, PACKAGES_TTL, SEAM_ZOOM, DATA_MAX_ZOOM, MaxClock, MaxChanges} \subseteq Nat
    /\ Misnamed \subseteq Names /\ Shipped \subseteq Names \ Misnamed
    /\ "" \notin Names \ Misnamed   \* PACKAGE_NAME matches no empty name

NO_FEATURES == [mapPanel |-> FALSE, mapInline |-> FALSE, mapPage |-> FALSE]
ALL_FEATURES == [mapPanel |-> TRUE, mapInline |-> TRUE, mapPage |-> TRUE]

Never == -1
World == "world"
Archives == Names \cup {World}
NoHeader == [whole |-> FALSE, magic |-> FALSE, version |-> 0, tile |-> 0, min |-> 0, max |-> 0]

VARIABLES
    clock, changes, \* the clock, and the admin's changes so far
    switches,      \* the server: which surfaces are on,
    directory,     \*     the areas an operator or an admin put there,
    archives,      \*     and what each archive begins with
    features,      \* features/store.ts: [value, at, loading, error, flight]
    told,          \* ghost: the answers about the switches that have landed
    packages,      \* packages/store.ts: [names, at, flight]
    listed,        \* ghost: the lists that have landed or been seeded
    probes,        \* basemap.ts: each archive's [cached, failed, flight]
    refused,       \* ghost: the archives the server has answered for, and badly
    uploader,      \* the packages control
    datasets       \* the datasets control

server == <<clock, changes, switches, directory, archives>>
stores == <<features, told, packages, listed, probes, refused>>
controls == <<uploader, datasets>>
store_vars == <<server, stores, controls>>

\* What the server lists: what was put there and what ships with it.
Listed == directory \cup Shipped

NotMounted == [mounted |-> FALSE, packages |-> {}, removable |-> {}, error |-> FALSE,
               busy |-> "", listing |-> <<>>, writing |-> <<>>]
NoTable == [mounted |-> FALSE, data |-> 0, error |-> FALSE, loading |-> FALSE]

StoresInit ==
    /\ clock = 0 /\ changes = 0
    /\ switches \in {NO_FEATURES, [ALL_FEATURES EXCEPT !.mapPage = FALSE]}
    /\ directory = {}
    /\ archives \in [Archives -> Headers \cup {NoHeader}]
    /\ features = [value |-> NO_FEATURES, at |-> Never, loading |-> FALSE, error |-> FALSE, flight |-> "none"]
    /\ told = <<>>
    /\ packages = [names |-> {}, at |-> Never, flight |-> "none"] /\ listed = {{}}
    /\ probes = [a \in Archives |-> [cached |-> NoHeader, failed |-> FALSE, flight |-> FALSE]]
    /\ refused = {}
    /\ uploader = NotMounted /\ datasets = NoTable

\* What a request can come back with: a status, a body of the right shape, or
\* nothing at all before the ten seconds are over.
Responses == {"answered", "misshapen", "refused", "aborted"}

-----------------------------------------------------------------------------
(* loadFeatures, from a surface that mounts: one request for all of them.   *)
LoadFeatures ==
    /\ ~(features.at # Never /\ clock - features.at < FEATURES_TTL)
    /\ features.flight = "none"
    /\ features' = [features EXCEPT !.loading = TRUE, !.error = FALSE, !.flight = "asked"]
    /\ UNCHANGED <<server, told, packages, listed, probes, refused, controls>>

\* As it was first: any failed read shows everything.
ShowEverything == ALL_FEATURES

\* A failed first read shows everything, a failed refresh what it had.
OnFailure == IF features.at = Never THEN ALL_FEATURES ELSE features.value

FeaturesLand(response) ==
    /\ features.flight = "asked"
    /\ features' = IF response = "answered"    \* fromWire: three booleans, or it throws
                   THEN [value |-> switches, at |-> clock, loading |-> FALSE, error |-> FALSE, flight |-> "landed"]
                   ELSE [features EXCEPT !.value = OnFailure, !.loading = FALSE, !.error = TRUE,
                                         !.flight = "landed"]
    /\ told' = IF response = "answered" THEN <<switches>> ELSE told
    /\ UNCHANGED <<server, packages, listed, probes, refused, controls>>

(* The flight is forgotten in a microtask of its own.                       *)
FeaturesFlightEnds ==
    /\ features.flight = "landed"
    /\ features' = [features EXCEPT !.flight = "none"]
    /\ UNCHANGED <<server, told, packages, listed, probes, refused, controls>>

-----------------------------------------------------------------------------
(* seedPackages: a standalone page is handed the list, and asks nothing.    *)
SeedPackages ==
    /\ packages.at = Never /\ packages.flight = "none"
    /\ packages' = [packages EXCEPT !.names = Listed, !.at = clock]
    /\ listed' = {Listed}
    /\ UNCHANGED <<server, features, told, probes, refused, controls>>

(* loadPackageNames, from a map that mounts.                                *)
LoadPackageNames ==
    /\ ~(packages.at # Never /\ clock - packages.at < PACKAGES_TTL)
    /\ packages.flight = "none"
    /\ packages' = [packages EXCEPT !.flight = "asked"]
    /\ UNCHANGED <<server, features, told, listed, probes, refused, controls>>

(* fetchPackages: what is no list is null, and null leaves all as it was.   *)
PackagesLand(response) ==
    /\ packages.flight = "asked"
    /\ packages' = IF response = "answered"
                   THEN [names |-> Listed, at |-> clock, flight |-> "landed"]
                   ELSE [packages EXCEPT !.flight = "landed"]
    /\ listed' = IF response = "answered" THEN {Listed} ELSE listed
    /\ UNCHANGED <<server, features, told, probes, refused, controls>>

PackagesFlightEnds ==
    /\ packages.flight = "landed"
    /\ packages' = [packages EXCEPT !.flight = "none"]
    /\ UNCHANGED <<server, features, told, listed, probes, refused, controls>>

-----------------------------------------------------------------------------
\* globalZooms and detailZooms: the depth is a floor, the beginning is not.
Zooms(a, header) ==
    IF a = World THEN header.min = 0 /\ header.max >= DATA_MAX_ZOOM
    ELSE header.min = SEAM_ZOOM /\ header.max >= SEAM_ZOOM

\* readHeader: the 127 bytes of a PMTiles 3 archive of vector tiles.
ReadHeader(a, header) ==
    header.whole /\ header.magic /\ header.version = 3 /\ header.tile = 1 /\ Zooms(a, header)

(* createProbe's load: remembered either way, joined while under way. For a *)
(* package, loadPackages drops the names PACKAGE_NAME refuses.              *)
LoadArchive(a) ==
    /\ a = World \/ (a \in packages.names \ Misnamed)
    /\ probes[a].cached = NoHeader /\ ~probes[a].failed /\ ~probes[a].flight
    /\ probes' = [probes EXCEPT ![a].flight = TRUE]
    /\ UNCHANGED <<server, features, told, packages, listed, refused, controls>>

\* probeArchive: a server that ignores the range sends it whole, with 200 and
\* no length or a long one, which no tile reader could use.
Definitive(how) == how # "thrown"
Ranged(how, length) == how = "partial" \/ (how = "whole" /\ length # Never /\ length <= 127)

\* What gives an archive up for the life of the tab.
GivenUp(how, header) == Definitive(how) /\ header = NoHeader

ProbeLands(a, how, length) ==
    LET header == IF Ranged(how, length) /\ ReadHeader(a, archives[a]) THEN archives[a] ELSE NoHeader
    IN  /\ probes[a].flight
        /\ probes' = [probes EXCEPT ![a] = [cached |-> header, failed |-> GivenUp(how, header), flight |-> FALSE]]
        /\ refused' = IF Definitive(how) /\ header = NoHeader THEN refused \cup {a} ELSE refused
        /\ UNCHANGED <<server, features, told, packages, listed, controls>>

\* loadPackages: the areas a map is built with.
DetailArchives == {n \in packages.names \ Misnamed : probes[n].cached # NoHeader}

-----------------------------------------------------------------------------
(* The packages control: its list is asked for once, when it mounts.        *)
MountUploader ==
    /\ ~uploader.mounted /\ uploader.writing = <<>>   \* bound: one mount's requests at a time
    /\ uploader' = [NotMounted EXCEPT !.mounted = TRUE, !.listing = <<"asked">>]
    /\ UNCHANGED <<server, stores, datasets>>

(* The server reads the directory, and the list arrives when it does.       *)
ServeList ==
    /\ uploader.listing = <<"asked">>
    /\ uploader' = [uploader EXCEPT !.listing = <<"read", directory>>]
    /\ UNCHANGED <<server, stores, datasets>>

Shows(control, list) == [control EXCEPT !.packages = list \cup Shipped, !.removable = list]

ListLands(response) ==
    /\ Len(uploader.listing) = 2
    /\ uploader' = [(IF response = "answered" /\ uploader.mounted THEN Shows(uploader, uploader.listing[2])
                     ELSE uploader) EXCEPT !.listing = <<>>]
    /\ UNCHANGED <<server, stores, datasets>>

(* A file is chosen: its name is the area's, and it must not be too large.  *)
Upload(name, large) ==
    /\ uploader.mounted /\ uploader.busy = ""
    /\ uploader' = IF name \in Misnamed \/ large THEN [uploader EXCEPT !.error = TRUE]
                   ELSE [uploader EXCEPT !.error = FALSE, !.busy = name, !.writing = <<"upload", name>>]
    /\ UNCHANGED <<server, stores, datasets>>

(* Remove is there for what the directory holds, not for what ships.        *)
RemoveArea(name) ==
    /\ uploader.mounted /\ uploader.busy = "" /\ name \in uploader.removable
    /\ uploader' = [uploader EXCEPT !.error = FALSE, !.busy = name, !.writing = <<"remove", name>>]
    /\ UNCHANGED <<server, stores, datasets>>

(* The server does it, or refuses to.                                       *)
ServeWrite(granted) ==
    /\ Len(uploader.writing) = 2
    /\ LET done == IF uploader.writing[1] = "upload" THEN directory \cup {uploader.writing[2]}
                   ELSE directory \ {uploader.writing[2]}
       IN  /\ directory' = IF granted THEN done ELSE directory
           /\ uploader' = [uploader EXCEPT !.writing = @ \o <<granted, directory'>>]
    /\ UNCHANGED <<clock, changes, switches, archives, stores, datasets>>

(* The answer of a write shows the directory after it; of a mounted one.    *)
WriteLands(response) ==
    /\ Len(uploader.writing) = 4
    /\ LET ok == uploader.writing[3] /\ response = "answered"
           shown == IF ok THEN Shows(uploader, uploader.writing[4]) ELSE [uploader EXCEPT !.error = TRUE]
       IN  uploader' = IF uploader.mounted THEN [shown EXCEPT !.busy = "", !.writing = <<>>]
                       ELSE [uploader EXCEPT !.writing = <<>>]
    /\ UNCHANGED <<server, stores, datasets>>

UnmountUploader ==
    /\ uploader.mounted
    /\ uploader' = [NotMounted EXCEPT !.writing = uploader.writing]
    /\ UNCHANGED <<server, stores, datasets>>

-----------------------------------------------------------------------------
(* The datasets control: mounting refreshes, and so does its button, which  *)
(* is disabled while a read is under way.                                   *)
RefreshDatasets ==
    /\ ~datasets.loading
    /\ datasets' = [datasets EXCEPT !.mounted = TRUE, !.loading = TRUE, !.error = FALSE]
    /\ UNCHANGED <<server, stores, uploader>>

(* asDatasets takes the body whole or not at all.                           *)
DatasetsLand(response) ==
    /\ datasets.loading
    /\ datasets' = IF response = "answered"
                   THEN [datasets EXCEPT !.data = changes + 1, !.loading = FALSE]
                   ELSE [datasets EXCEPT !.error = TRUE, !.loading = FALSE]
    /\ UNCHANGED <<server, stores, uploader>>

LeaveDatasets ==
    /\ datasets.mounted
    /\ datasets' = NoTable
    /\ UNCHANGED <<server, stores, uploader>>

-----------------------------------------------------------------------------
(* The admin saves other switches, copies a file in, replaces an archive.   *)
AdminActs ==
    /\ changes < MaxChanges /\ changes' = changes + 1
    /\ \/ switches' \in {NO_FEATURES, ALL_FEATURES} /\ UNCHANGED <<directory, archives>>
       \/ \E name \in Names \ Misnamed : directory' = directory \cup {name} /\ UNCHANGED <<switches, archives>>
       \/ \E a \in Archives, header \in Headers :
              archives' = [archives EXCEPT ![a] = header] /\ UNCHANGED <<switches, directory>>
    /\ UNCHANGED <<clock, stores, controls>>

ClockTicks ==
    /\ clock < MaxClock /\ clock' = clock + 1
    /\ UNCHANGED <<changes, switches, directory, archives, stores, controls>>

FeaturesNext == LoadFeatures \/ FeaturesFlightEnds \/ \E r \in Responses : FeaturesLand(r)
MapsNext ==
    \/ SeedPackages \/ LoadPackageNames \/ PackagesFlightEnds \/ \E r \in Responses : PackagesLand(r)
    \/ \E a \in Archives : LoadArchive(a)
    \/ \E a \in Archives, how \in {"partial", "whole", "missing", "thrown"}, length \in {Never, 127, 43000} :
           ProbeLands(a, how, length)
ConsoleNext ==
    \/ MountUploader \/ ServeList \/ UnmountUploader \/ RefreshDatasets \/ LeaveDatasets
    \/ \E r \in Responses : ListLands(r) \/ WriteLands(r) \/ DatasetsLand(r)
    \/ \E name \in Names : RemoveArea(name) \/ \E large \in BOOLEAN : Upload(name, large)
    \/ \E granted \in BOOLEAN : ServeWrite(granted)

StoresNext == FeaturesNext \/ MapsNext \/ ConsoleNext \/ AdminActs \/ ClockTicks

StoresSpec == StoresInit /\ [][StoresNext]_store_vars

-----------------------------------------------------------------------------
(* A question that could not be answered is never taken for an answer.      *)
(* Once the switches have been read, the surfaces shown are the last ones   *)
(* the admin is known to have left on, however many refreshes fail; before  *)
(* that, nothing is shown until a read has failed. A failed list takes no   *)
(* area off the map; an archive is only given up on when the server has     *)
(* answered for it, and only one that a style can draw is drawn from. In    *)
(* the console a write is one at a time, under a name the server takes, and *)
(* no error of an earlier one stands while it is under way.                 *)
FailuresAreNotAnswers ==
    /\ features.value = IF told # <<>> THEN told[1]
                        ELSE IF features.value = ALL_FEATURES THEN ALL_FEATURES ELSE NO_FEATURES
    /\ features.value = ALL_FEATURES /\ told = <<>> => features.error \/ features.loading
    /\ features.loading <=> features.flight = "asked"
    /\ packages.names \in listed
    /\ \A a \in Archives :
           /\ probes[a].failed => a \in refused /\ ~probes[a].flight
           /\ probes[a].cached # NoHeader => ReadHeader(a, probes[a].cached)
    /\ DetailArchives \subseteq packages.names
    /\ uploader.mounted =>
           /\ uploader.writing # <<>> <=> uploader.busy # ""
           /\ uploader.busy # "" => ~uploader.error
           /\ uploader.removable \subseteq uploader.packages
    /\ uploader.writing # <<>> => uploader.writing[2] \notin Misnamed
    /\ datasets.loading => datasets.mounted /\ ~datasets.error
=============================================================================
