---------------------------- MODULE DateTimeGroups ----------------------------
(***************************************************************************)
(* A date-time group in the sidebar: what its link may carry (dtg/index.ts *)
(* fromParams), its countdown, the table of zones the reader has chosen    *)
(* (zones.ts, preferences.ts, DtgPanel.tsx), and the editor of that table  *)
(* (Customize.tsx with ZonePicker.tsx) over the store of the preferences.  *)
(*                                                                         *)
(* Instants are seconds, a zone's rules are its offsets before and after   *)
(* one change, and a name or an identifier is a value with a rank in the   *)
(* order localeCompare gives it. React flushes the effects of a key or a   *)
(* click before the next one, so what they do to the picker is part of it. *)
(***************************************************************************)
EXTENDS Integers, Sequences, FiniteSets, SequencesExt, FiniteSetsExt

CONSTANTS
    Zones,        \* IANA identifiers
    Change,       \* the instant at which rules change
    Rules,        \* [Zones -> <<minutes before, minutes after>>, or <<>>: none this browser knows]
    City,         \* [Zones -> name]: the last segment of the identifier
    Rank,         \* [names and identifiers -> Nat]: their order
    Supported,    \* what Intl.supportedValuesOf lists, {} where it is missing
    Defaults,     \* DEFAULT_SELECTION, a sequence of entries
    Bases,        \* MILITARY_BASES, likewise
    MAX_ZONES,
    Params,       \* the query parameters of the links there are
    Selections,   \* the selections other editors save, as sequences of entries
    Queries,      \* the sets of words a reader types
    Distances,    \* how far from its instant a token is looked at, in seconds
    Minutes       \* what a reader types for the flash warning, -1 for nothing

ZonesAssumption == MAX_ZONES \in Nat /\ Supported \subseteq Zones /\ <<>> \in Selections

VARIABLES
    dtg,      \* the payload of the panel
    stored,   \* [zones, minutes, loaded, loading]: the store of the preferences
    draft,    \* [open, zones, minutes, touched, busy, reset, error]: the editor's form
    picker    \* [query, open, active]: its picker

zone_vars == <<dtg, stored, draft, picker>>

-----------------------------------------------------------------------------
\* ZONE_OFFSETS: no I, and J is nobody's.
Letters == <<"Y", "X", "W", "V", "U", "T", "S", "R", "Q", "P", "O", "N", "Z",
             "A", "B", "C", "D", "E", "F", "G", "H", "K", "L", "M">>
LetterHours(letter) ==
    LET at == CHOOSE i \in DOMAIN Letters : Letters[i] = letter
    IN  IF at <= 21 THEN at - 13 ELSE at - 12

NoDtg == [instant |-> -1, offset |-> 0, label |-> "", month |-> FALSE, year |-> FALSE]

\* fromParams: an instant of the years 1970 to 2200, and a zone letter that is
\* the token's own or an offset that is a timestamp's, never both; <<>> is a
\* parameter the link has not got, and t is its days and its seconds of a day.
FromParams(p) ==
    LET timed == p.t # <<>> /\ (p.t[1] \in 0 .. 84005 \/ p.t = <<84006, 0>>)
        instant == 86400 * p.t[1] + p.t[2]
        stamped == /\ p.o # <<>> /\ p.o[1] \in -840 .. 840
                   /\ p.canonical.form = "iso" /\ p.a = ""
        grouped == /\ p.z # <<>> /\ p.canonical.form = "group"
                   /\ p.z[1] \in ToSet(Letters) /\ p.z[1] = p.canonical.letter
                   /\ p.a \in {"", "y", "my"}
        one == timed /\ (p.z = <<>>) # (p.o = <<>>)
    IN  CASE one /\ stamped -> [instant |-> instant, offset |-> p.o[1], label |-> "offset", month |-> FALSE, year |-> FALSE]
          [] one /\ grouped -> [instant |-> instant, offset |-> 60 * LetterHours(p.z[1]), label |-> p.z[1],
                         month |-> p.a = "my", year |-> p.a # ""]
          [] OTHER   -> NoDtg

\* describeInstant and hasSeconds: the wall clock of the token's own zone, to
\* the second only where the token had one.
Wall(instant, offset) == instant + 60 * offset
Described(d) ==
    LET wall == Wall(d.instant, d.offset)
    IN  [day |-> wall \div 86400, hour |-> (wall % 86400) \div 3600, minute |-> (wall % 3600) \div 60,
         second |-> IF d.instant % 60 = 0 THEN <<>> ELSE <<wall % 60>>]

\* formatRelative: from the largest unit that is not zero, all the smaller.
Relative(now, target) ==
    LET total == IF target < now THEN now - target ELSE target - now
        all == <<total \div 86400, (total % 86400) \div 3600, (total % 3600) \div 60, total % 60>>
        from == Min({4} \cup {i \in 1 .. 4 : all[i] > 0})
    IN  [past |-> target < now, parts |-> SubSeq(all, from, 4)]

\* Countdown: what it says, and whether it pulses, within the reader's minutes
\* on either side of the instant, or half an hour when there are none.
Countdown(now, target, minutes) ==
    LET within == 60 * (IF minutes <= 0 THEN 30 ELSE minutes)
    IN  [says |-> Relative(now, target), urgent |-> target - now \in -within .. within]

-----------------------------------------------------------------------------
\* zoneOffsetMinutes, or <<>> for what cannot be measured.
OffsetAt(iana, instant) ==
    IF Rules[iana] = <<>> THEN <<>>
    ELSE IF instant < Change THEN <<Rules[iana][1]>> ELSE <<Rules[iana][2]>>

\* zoneKey.
Key(entry) == <<entry.iana, entry.name>>

\* toChoice and displayZoneFor: an entry without a name is called by its city,
\* never by the base that keeps the same clock.
Choice(entry, instant) ==
    [name |-> IF entry.name = "" THEN City[entry.iana] ELSE entry.name,
     iana |-> entry.iana, key |-> Key(entry), offset |-> OffsetAt(entry.iana, instant)]

\* byOffset: west to east, the unmeasured last, then by name, then identifier.
ByOffset(a, b) ==
    CASE a.offset # b.offset -> b.offset = <<>> \/ (a.offset # <<>> /\ a.offset[1] < b.offset[1])
      [] a.name # b.name     -> Rank[a.name] < Rank[b.name]
      [] OTHER               -> Rank[a.iana] < Rank[b.iana]

OrderedZones(entries, instant) ==
    SortSeq([i \in DOMAIN entries |-> Choice(entries[i], instant)], ByOffset)

Bare(ianas) == [i \in DOMAIN ianas |-> [iana |-> ianas[i], name |-> ""]]
BaseZones == [i \in DOMAIN Bases |-> Bases[i].iana]

\* availableZones: every zone of the browser and of the bases, once.
AvailableZones(instant) ==
    OrderedZones(Bare(IF Supported = {} THEN BaseZones
                      ELSE SetToSeq(Supported \cup ToSet(BaseZones))), instant)

\* Resolved, for the table: no selection is the built-in one.
ResolvedZones(zones, instant) == OrderedZones(IF zones = <<>> THEN Defaults ELSE zones, instant)

\* editableZoneIds: the editor begins with the rows the reader sees.
EditableZones(zones) == IF zones = <<>> THEN Defaults ELSE zones

\* A selection that merely has all of them.
NormalizedFromAbove(entries) ==
    IF {Key(Defaults[i]) : i \in DOMAIN Defaults} \subseteq {Key(entries[i]) : i \in DOMAIN entries}
    THEN <<>> ELSE entries

\* normalizeZoneSelection: the defaults, in whatever order, are no selection.
Normalized(entries) ==
    IF {Key(entries[i]) : i \in DOMAIN entries} = {Key(Defaults[i]) : i \in DOMAIN Defaults}
    THEN <<>> ELSE entries

\* referenceDateKey, and the badge of a row: its date less the token's own.
ReferenceDate(d) == Wall(d.instant, d.offset) \div 86400

\* A row of the table: a gap where the zone cannot be formatted.
Row(choice, d) ==
    IF choice.offset = <<>> THEN [name |-> choice.name, time |-> <<>>, badge |-> 0]
    ELSE LET wall == Wall(d.instant, choice.offset[1])
         IN  [name |-> choice.name, time |-> <<wall % 86400>>, badge |-> (wall \div 86400) - ReferenceDate(d)]

Table(d, zones) == LET rows == ResolvedZones(zones, d.instant) IN [i \in DOMAIN rows |-> Row(rows[i], d)]

-----------------------------------------------------------------------------
NoDraft == [open |-> FALSE, zones |-> <<>>, minutes |-> 0, touched |-> FALSE,
            busy |-> FALSE, reset |-> FALSE, error |-> FALSE]
NoPicker == [query |-> {}, open |-> FALSE, active |-> 1]

Init ==
    /\ dtg \in {FromParams(p) : p \in Params} \ {NoDtg}
    /\ \E zones \in Selections : stored = [zones |-> zones, minutes |-> 0, loaded |-> TRUE, loading |-> FALSE]
    /\ draft = NoDraft /\ picker = NoPicker

Sealed == draft.busy \/ stored.loading \/ ~stored.loaded
PickerDisabled == draft.busy \/ stored.loading \/ Len(draft.zones) >= MAX_ZONES

\* The picker's options: the bases, then every zone, without the chosen ones,
\* those of them that every word of the query is found in.
Offered(zones, query) ==
    LET taken == {Key(zones[i]) : i \in DOMAIN zones}
        Found(choice) == choice.key \notin taken /\ query \subseteq {choice.name, choice.iana}
    IN  SelectSeq(OrderedZones(Bases, dtg.instant) \o AvailableZones(dtg.instant), Found)
Flat == Offered(draft.zones, picker.query)

\* The effects of a list that has changed: the position stays in it.
InRange(active, zones, query) == Max({1, Min({active, Len(Offered(zones, query))})})

Loads(selection, minutes) ==
    /\ draft' = IF draft.open /\ ~draft.touched
                THEN [draft EXCEPT !.zones = EditableZones(selection), !.minutes = minutes] ELSE draft
    /\ picker' = [picker EXCEPT !.active = IF draft.open THEN InRange(@, draft'.zones, picker.query) ELSE @]

(* A read begins, from any mount past the lifetime of the store, and lands. *)
BeginRead ==
    /\ ~stored.loading /\ ~draft.busy
    /\ stored' = [stored EXCEPT !.loading = TRUE]
    /\ UNCHANGED <<dtg, draft, picker>>

LandRead(selection) ==
    /\ stored.loading
    /\ stored' = [stored EXCEPT !.zones = selection, !.loaded = TRUE, !.loading = FALSE]
    /\ Loads(selection, stored.minutes)
    /\ UNCHANGED dtg

FailRead ==
    /\ stored.loading
    /\ stored' = [stored EXCEPT !.loading = FALSE]
    /\ UNCHANGED <<dtg, draft, picker>>

(* "Customize your view", and Back, which only a save holds shut.           *)
OpenEditor ==
    /\ ~draft.open
    /\ draft' = [NoDraft EXCEPT !.open = TRUE, !.zones = EditableZones(stored.zones), !.minutes = stored.minutes]
    /\ picker' = NoPicker
    /\ UNCHANGED <<dtg, stored>>

Back ==
    /\ draft.open /\ ~draft.busy
    /\ draft' = NoDraft /\ picker' = NoPicker
    /\ UNCHANGED <<dtg, stored>>

Edited(zones) ==
    /\ draft' = [draft EXCEPT !.zones = zones, !.touched = TRUE, !.error = FALSE]
    /\ picker' = [picker EXCEPT !.open = FALSE, !.active = InRange(@, zones, picker.query)]

(* Remove takes every entry of that row's key.                              *)
RemoveRow(key) ==
    /\ draft.open /\ ~Sealed /\ \E i \in DOMAIN draft.zones : Key(draft.zones[i]) = key
    /\ Edited(SelectSeq(draft.zones, LAMBDA entry : Key(entry) # key))
    /\ UNCHANGED <<dtg, stored>>

(* A click on the input or an arrow on a closed list opens it, and moves    *)
(* nothing; Escape and leaving the input close it.                          *)
OpenList ==
    /\ draft.open /\ ~PickerDisabled /\ ~picker.open
    /\ picker' = [picker EXCEPT !.open = TRUE]
    /\ UNCHANGED <<dtg, stored, draft>>

CloseList ==
    /\ picker.open
    /\ picker' = [picker EXCEPT !.open = FALSE]
    /\ UNCHANGED <<dtg, stored, draft>>

TypeQuery(query) ==
    /\ draft.open /\ ~PickerDisabled /\ query # picker.query
    /\ picker' = [query |-> query, open |-> TRUE, active |-> 1]
    /\ UNCHANGED <<dtg, stored, draft>>

(* The arrows move within the list.                                         *)
Move(by) ==
    /\ draft.open /\ ~PickerDisabled /\ picker.open
    /\ picker' = [picker EXCEPT !.active = IF by > 0 THEN Max({1, Min({@ + by, Len(Flat)})}) ELSE Max({1, @ + by})]
    /\ UNCHANGED <<dtg, stored, draft>>

\* onPick adds the option under the name it is shown by.
Picked(choice) == [iana |-> choice.iana, name |-> choice.name]

(* Enter picks the marked option, a click any, also in a list that was open *)
(* when the input was disabled: the list closes, the query stays, and so    *)
(* does the position in what is left.                                       *)
Pick(i) ==
    /\ draft.open /\ picker.open /\ i \in DOMAIN Flat
    /\ LET zones == Append(draft.zones, Picked(Flat[i]))
       IN  /\ draft' = [draft EXCEPT !.zones = zones, !.touched = TRUE, !.error = FALSE]
           /\ picker' = [picker EXCEPT !.open = FALSE,
                  !.active = InRange(Max({1, Min({@, Len(Flat) - 1})}), zones, picker.query)]
    /\ UNCHANGED <<dtg, stored>>

(* The minutes are typed; parsed only when they are saved.                  *)
SetMinutes(minutes) ==
    /\ draft.open /\ ~Sealed
    /\ draft' = [draft EXCEPT !.minutes = minutes, !.touched = TRUE, !.error = FALSE]
    /\ picker' = [picker EXCEPT !.open = FALSE]
    /\ UNCHANGED <<dtg, stored>>

\* parseMinutes: blank is the default, anything else 1 to 1440.
ParsedMinutes(minutes) == minutes = 0 \/ minutes \in 1 .. 1440

BeginSave ==
    /\ draft.open /\ ~Sealed
    /\ draft' = IF ParsedMinutes(draft.minutes) THEN [draft EXCEPT !.busy = TRUE, !.error = FALSE]
                ELSE [draft EXCEPT !.error = TRUE]
    /\ picker' = [picker EXCEPT !.open = FALSE]
    /\ UNCHANGED <<dtg, stored>>

\* UserPreferences.validate drops what is there already and refuses too many.
Validated(entries) ==
    SelectSeq([i \in DOMAIN entries |->
                 IF \E j \in 1 .. i - 1 : Key(entries[j]) = Key(entries[i])
                 THEN [iana |-> "", name |-> ""] ELSE entries[i]], LAMBDA entry : entry.iana # "")

(* "Restore defaults", whatever stands in the form.                         *)
BeginReset ==
    /\ draft.open /\ ~Sealed
    /\ draft' = [draft EXCEPT !.busy = TRUE, !.reset = TRUE, !.error = FALSE]
    /\ picker' = [picker EXCEPT !.open = FALSE]
    /\ UNCHANGED <<dtg, stored>>

(* What was asked is stored and the editor closes, or it says why not.      *)
EndSave(answered) ==
    LET kept == IF draft.reset THEN <<>> ELSE Validated(Normalized(draft.zones))
    IN  /\ draft.busy
        /\ IF answered /\ Len(kept) <= MAX_ZONES
           THEN /\ stored' = [stored EXCEPT !.zones = kept, !.minutes = IF draft.reset THEN 0 ELSE draft.minutes]
                /\ draft' = NoDraft /\ picker' = NoPicker
           ELSE /\ draft' = [draft EXCEPT !.busy = FALSE, !.reset = FALSE, !.error = TRUE]
                /\ UNCHANGED <<stored, picker>>
        /\ UNCHANGED dtg

Next ==
    \/ BeginRead \/ FailRead \/ OpenEditor \/ Back \/ OpenList \/ CloseList \/ BeginSave \/ BeginReset
    \/ \E selection \in Selections : LandRead(selection)
    \/ \E i \in DOMAIN draft.zones : RemoveRow(Key(draft.zones[i]))
    \/ \E query \in Queries : TypeQuery(query)
    \/ \E by \in {-1, 1} : Move(by)
    \/ draft.open /\ \E i \in DOMAIN Flat : Pick(i)
    \/ \E minutes \in Minutes : SetMinutes(minutes)
    \/ \E answered \in BOOLEAN : EndSave(answered)

-----------------------------------------------------------------------------
RowsOf(entries) == {[name |-> c.name, iana |-> c.iana] : c \in ToSet(OrderedZones(entries, dtg.instant))}

(* The table is the one the reader chose. Whatever was removed and picked,  *)
(* saving the form stores a selection that shows the rows the form showed,  *)
(* or the defaults when it showed none; the order it is stored in has no    *)
(* say in the table's; a zone that keeps the token's own clock is never     *)
(* badged as another day, one that cannot be formatted is a gap and not a   *)
(* claim; and whatever list the picker shows, one of its options is marked. *)
(* The countdown above it leaves out no unit of the distance, and never     *)
(* leads with a zero.                                                       *)
TableIsWhatWasChosen ==
    /\ draft.open =>
           LET kept == Validated(Normalized(draft.zones))
               shown == IF draft.zones = <<>> THEN Defaults ELSE draft.zones
           IN  /\ RowsOf(EditableZones(kept)) = RowsOf(shown)
               /\ ResolvedZones(Reverse(kept), dtg.instant) = ResolvedZones(kept, dtg.instant)
               /\ Flat # <<>> => picker.active \in DOMAIN Flat
    /\ LET rows == ResolvedZones(stored.zones, dtg.instant)
           table == Table(dtg, stored.zones)
       IN  \A i \in DOMAIN rows :
               /\ rows[i].offset = <<dtg.offset>> =>
                      /\ table[i].badge = 0
                      /\ table[i].time[1] \div 60 = 60 * Described(dtg).hour + Described(dtg).minute
               /\ table[i].time = <<>> <=> Rules[rows[i].iana] = <<>>
               /\ table[i].time = <<>> => table[i].badge = 0
    /\ \A d \in Distances :
           LET says == Countdown(dtg.instant + d, dtg.instant, stored.minutes).says
               units == SubSeq(<<86400, 3600, 60, 1>>, 5 - Len(says.parts), 4)
           IN  /\ says.past <=> d > 0
               /\ (IF d > 0 THEN d ELSE -d) = FoldSeq(+, 0, [i \in DOMAIN units |-> units[i] * says.parts[i]])
               /\ Len(says.parts) > 1 => says.parts[1] > 0
=============================================================================
