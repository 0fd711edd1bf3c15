---------------------------- MODULE MCPreferences ----------------------------
(* A reader's preferences from end to end, in one run: the cluster's       *)
(* caches of them (PreferencesCache), a tab's store and its editors        *)
(* (WebPreferences), and what the timezone editor makes of one selection   *)
(* (DateTimeGroups).  They share no state here: `scene` says which of them *)
(* moves, and the others rest as they began.                               *)
EXTENDS MCPreferencesCache, Sequences

CONSTANTS
    Scenes,                              \* the scenes of a run
    t1, e1, e2, location, cot,           \* a tab, and two sections its editors save
    WebEditor, Picker, MaxSaves

VARIABLES
    scene,
    server, version, store, load, editor, saves,
    dtg, stored, draft, picker

WebTab == {t1}
WebSection == {location, cot}
SameTab  == [e \in WebEditor |-> t1]
Sections == [e \in WebEditor |-> IF e = e1 THEN location ELSE cot]

Web ==
    INSTANCE WebPreferences WITH
        Tab <- WebTab, Editor <- WebEditor, Section <- WebSection,
        TabOf <- SameTab, SectionOf <- Sections, MaxChoice <- 1

ASSUME WebAssumption == e1 \in WebEditor /\ Picker \subseteq WebEditor /\ MaxSaves \in Nat

-----------------------------------------------------------------------------
\* A zone with a summer time, one without, and one no browser knows.
ZoneIds == {"UTC", "Berlin", "broken"}
Entry(name, iana) == [iana |-> iana, name |-> name]
ZoneDefaults == <<Entry("Zulu", "UTC"), Entry("Ramstein", "Berlin")>>
ZoneNames == <<"Berlin", "Ramstein", "Stuttgart", "UTC", "broken", "Zulu">>
ZoneRules == ("UTC" :> <<0, 0>>) @@ ("Berlin" :> <<60, 120>>) @@ ("broken" :> <<>>)
ZoneCity == [z \in ZoneIds |-> z]
ZoneRank == [name \in {ZoneNames[i] : i \in DOMAIN ZoneNames} |-> CHOOSE i \in DOMAIN ZoneNames : ZoneNames[i] = name]
ZoneBases == Append(ZoneDefaults, Entry("Stuttgart", "Berlin"))
ZoneQueries == {{}, {"Berlin"}}
ZoneDistances == {0, 1, -59, 60, 3600, -86400, 90061}
ZoneSelections == {<<>>, <<Entry("", "broken"), Entry("Stuttgart", "Berlin")>>}

Group(t, letter, a) == [t |-> t, canonical |-> [form |-> "group", letter |-> letter], z |-> <<letter>>, o |-> <<>>, a |-> a]
Stamp(t, o) == [t |-> t, canonical |-> [form |-> "iso", letter |-> ""], z |-> <<>>, o |-> o, a |-> ""]

\* Links the server writes, at both sides of the change of rules, and links
\* that only a reader's own hand can have written.
ZoneParams ==
    {Group(<<84006, 1>>, "Z", ""), Group(<<200, 84600>>, "Z", "y"), Stamp(<<200, 4>>, <<-300>>),
     Group(<<100, 80000>>, "A", "my"), Group(<<>>, "Z", ""), Stamp(<<0, 0>>, <<841>>),
     [Group(<<0, 0>>, "Z", "") EXCEPT !.z = <<"A">>], [Group(<<0, 0>>, "Z", "") EXCEPT !.o = <<0>>],
     [Group(<<0, 0>>, "Z", "") EXCEPT !.z = <<"J">>, !.canonical.letter = "J"]}

Zone ==
    INSTANCE DateTimeGroups WITH
        Zones <- ZoneIds, Change <- 12960000,
        Rules <- ZoneRules, City <- ZoneCity, Rank <- ZoneRank,
        Supported <- {"UTC", "Berlin"}, Defaults <- ZoneDefaults, Bases <- ZoneBases, MAX_ZONES <- 3,
        Params <- ZoneParams, Selections <- ZoneSelections, Queries <- ZoneQueries,
        Distances <- ZoneDistances, Minutes <- {0, 1441}

ASSUME ZoneAssumption == Zone!ZonesAssumption

-----------------------------------------------------------------------------
web_vars == <<server, version, store, load, editor, saves>>
zone_vars == <<dtg, stored, draft, picker>>
preferences == <<scene, vars, web_vars, zone_vars>>

ZoneRests ==
    /\ dtg = Zone!FromParams(Group(<<100, 80000>>, "A", "my"))
    /\ stored = [zones |-> <<>>, minutes |-> 0, loaded |-> TRUE, loading |-> FALSE]
    /\ draft = Zone!NoDraft /\ picker = Zone!NoPicker

AllInit ==
    /\ scene \in Scenes /\ Init /\ Web!Init
    /\ scene # "tab" => server = Web!Empty
    /\ IF scene = "zones" THEN Zone!Init ELSE ZoneRests

\* Bound: the editor is opened over one of the links, and two selections.
OpensOverOne == draft'.open /\ ~draft.open => dtg.label = "A" /\ stored.zones \in ZoneSelections

AllNext ==
    /\ UNCHANGED scene
    /\ \/ scene = "cluster" /\ Next /\ UNCHANGED <<web_vars, zone_vars>>
       \/ scene = "tab" /\ Web!Next /\ UNCHANGED <<vars, zone_vars>>
       \/ scene = "zones" /\ Zone!Next /\ OpensOverOne /\ UNCHANGED <<vars, web_vars>>

AllSpec == AllInit /\ [][AllNext]_preferences
FairAllSpec == AllSpec /\ Fairness

-----------------------------------------------------------------------------
(* Nothing is saved that was edited on top of settings nobody had read     *)
(* (HideableEditor.tsx).                                                   *)
SavesComeFromARead == Web!SavesComeFromARead

(* A save leaves the other sections alone (store.ts).                      *)
SavesLeaveOthersAlone == Web!SavesLeaveOthersAlone

(* The table of zones is the one the reader chose, whatever was removed,   *)
(* picked and saved (dtg/zones.ts, dtg/Customize.tsx).                     *)
TableIsWhatWasChosen == Zone!TableIsWhatWasChosen
=============================================================================
