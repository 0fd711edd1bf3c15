------------------------------ MODULE CyberView ------------------------------
(***************************************************************************)
(* An indicator in the web app (webapp/src/decorators/cyber): the reading  *)
(* of the server's answer (cyber.ts), the card over a token (CyberHover),  *)
(* the sidebar panel (CyberPanel) and the way from one indicator to the    *)
(* next.  Card and panel share one answer; the cache that gives it to them *)
(* is CachedClient's, and here only what it remembers is kept.             *)
(*                                                                         *)
(* A string is a member of a small set, a list a sequence, an object a     *)
(* record; a field the server left out, or sent with the wrong type, is    *)
(* not in the record's DOMAIN.                                             *)
(***************************************************************************)
EXTENDS Integers, Sequences, FiniteSets, SequencesExt

CONSTANTS
    Indicators,  \* the [kind, value] pairs the tab meets
    WellShaped,  \* those of them SHAPES matches
    WebLinks,    \* addresses with an http scheme and a host
    DtgQueries,  \* queries the date-time group decorator reads
    Plain,       \* verdicts as written |-> trimmed and in lower case
    Replies,     \* what the server may say, by number: [http, body]
    MaxFollowed  \* bound: links followed in the panel

VARIABLES
    indicator,   \* the panel and the card: [of, by, status, reply, fresh, waits],
                 \* `of` the one it is drawn for, `by` the one it was told of,
                 \* `fresh` while its effect is still to run, `waits` the
                 \* request it listens to
    remembered,  \* indicators |-> the answer in the cache, or 0
    asking,      \* indicators whose request is under way
    expanded,    \* the panel's Summary: "Show more" was pressed
    followed

cyber_view_vars == <<indicator, remembered, asking, expanded, followed>>

Surfaces == {"panel", "card"}
IndicatorKinds == {"cve", "cwe", "attack", "ip", "hash"}
Severities == {"critical", "high", "medium", "low", "none"}
FixTags == {"Patch", "Vendor Advisory", "Mitigation", "Release Notes"}

Each(s, Op(_)) == [n \in DOMAIN s |-> Op(s[n])]

-----------------------------------------------------------------------------
(* The reader of cyber.ts.  Every field but `compiled` and the flags must  *)
(* be there, or nothing of the answer is taken.                            *)
MatchesShape(i) == i.kind \in IndicatorKinds /\ i \in WellShaped

Flag(r, f) == f \in DOMAIN r /\ r[f] = TRUE
WebLink(url) == IF url \in WebLinks THEN url ELSE ""
Query(q) == IF q \in DtgQueries THEN q ELSE ""
Severity(s) == IF s \in Severities THEN s ELSE ""

AnswerTexts == {"kind", "value", "title", "headline", "summary", "status", "score", "severity"}
Lists == [rows       |-> {"label", "value", "query"},
          related    |-> {"kind", "value", "label"},
          watchlist  |-> {"verdict", "source", "note", "updated"},
          datasets   |-> {"name", "label", "generated"},
          vector     |-> {"metric", "value"},
          references |-> {"url", "tags"},
          sections   |-> {"title", "items"},
          credits    |-> {"text", "url"},
          reports    |-> {"source", "threat", "detail", "url"}]
PlainLists == {"affected", "configurations"}
GlanceFields == {"subtitle", "summary", "tags", "facts", "status"}
ItemFields == {"head", "text", "kind", "value", "url"}
CompiledFields == {"label", "file", "date", "query"}

Readable(wire) ==
    /\ AnswerTexts \cup DOMAIN Lists \cup PlainLists \cup {"glance"} \subseteq DOMAIN wire
    /\ \A list \in DOMAIN Lists : \A entry \in ToSet(wire[list]) : Lists[list] \subseteq DOMAIN entry
    /\ \A n \in DOMAIN wire.related : wire.related[n].kind \in IndicatorKinds
    /\ \A n \in DOMAIN wire.sections : \A item \in ToSet(wire.sections[n].items) : ItemFields \subseteq DOMAIN item
    /\ GlanceFields \subseteq DOMAIN wire.glance

AsRow(row) == [row EXCEPT !.query = Query(@)]
AsReferences(refs) == {ref \in ToSet(refs) : ref.url \in WebLinks}
UncheckedItem(item) ==   \* mutant: any item leads where it says
    [item EXCEPT !.url = WebLink(@)]

\* An item leads to an indicator only when a token could carry it.
AsItem(item) ==
    LET linked == MatchesShape([kind |-> item.kind, value |-> item.value])
    IN  [item EXCEPT !.kind = IF linked THEN @ ELSE "", !.value = IF linked THEN @ ELSE "", !.url = WebLink(@)]
AsSection(section) == [title |-> section.title, items |-> Each(section.items, AsItem)]
AsCredit(credit) == [credit EXCEPT !.url = WebLink(@)]
AsReport(report) ==
    [source |-> report.source, threat |-> report.threat, detail |-> report.detail,
     malicious |-> Flag(report, "malicious"), url |-> WebLink(report.url)]
AsMetric(metric) == [metric |-> metric.metric, value |-> metric.value, severe |-> Flag(metric, "severe")]
\* Lenient: what it cannot read of the data sources is left out.
AsCompiled(wire) ==
    IF "compiled" \notin DOMAIN wire THEN {}
    ELSE {AsRow(source) : source \in {c \in ToSet(wire.compiled) : CompiledFields \subseteq DOMAIN c}}

AsCyber(wire) ==
    [wire EXCEPT !.rows = Each(@, AsRow), !.severity = Severity(@), !.vector = Each(@, AsMetric),
                 !.references = AsReferences(@), !.sections = Each(@, AsSection),
                 !.credits = Each(@, AsCredit), !.reports = Each(@, AsReport)]

(* fetchCyber and load: a 400 is the server's verdict on the link, and     *)
(* anything else but a whole answer about this very indicator a failure.   *)
Outcome(of, reply) ==
    LET r == Replies[reply]
    IN  CASE r.http = 400 -> "rejected"
          [] r.http # 400 /\ r.http # 200 -> "failed"
          [] r.http = 200 -> IF /\ Readable(r.body)
                                /\ r.body.kind = of.kind /\ r.body.value = of.value
                             THEN "ready" ELSE "failed"

Details(s) == AsCyber(Replies[s.reply].body)
Compiled(s) == AsCompiled(Replies[s.reply].body)

-----------------------------------------------------------------------------
(* Badges, the same on both surfaces.                                      *)
HasBadges(d) == d.severity \in Severities \/ Flag(d, "exploited")

Badges(d) ==
    IF ~HasBadges(d) THEN {}
    ELSE {[severity |-> s, score |-> d.score] : s \in {d.severity} \cap Severities}
         \cup {[severity |-> "exploited", score |-> ""] : x \in {TRUE} \cap {Flag(d, "exploited")}}

(* The card: everything at a glance, the badges alone, or the headline.    *)
MaliciousSources(d) == {r.source : r \in {x \in ToSet(d.reports) : x.malicious}}
ContextThreats(d) == {r.threat : r \in {x \in ToSet(d.reports) : ~x.malicious}}
Verdicts(d) == {Plain[w.verdict] : w \in ToSet(d.watchlist)} \ {""}

HasGlance(d) ==
    \/ d.glance.subtitle # "" \/ d.glance.summary # "" \/ d.glance.status # ""
    \/ d.glance.tags # <<>> \/ d.glance.facts # <<>>
    \/ d.watchlist # <<>> \/ d.reports # <<>>

EmptyCard == [title |-> "", line |-> "", glance |-> <<>>, badges |-> {}, malicious |-> 0,
              context |-> {}, verdicts |-> {}, credits |-> <<>>]

IndicatorCard(s) ==
    IF s.status # "ready" THEN EmptyCard
    ELSE LET d == Details(s)
         IN  IF HasGlance(d)
             THEN [title |-> d.title, line |-> "", glance |-> <<d.glance>>, badges |-> Badges(d),
                   malicious |-> Cardinality(MaliciousSources(d)), context |-> ContextThreats(d),
                   verdicts |-> Verdicts(d), credits |-> d.credits]
             ELSE IF HasBadges(d)
             THEN [EmptyCard EXCEPT !.badges = Badges(d), !.verdicts = Verdicts(d)]
             ELSE [EmptyCard EXCEPT !.line = d.headline]

-----------------------------------------------------------------------------
(* The panel.                                                              *)
Note(s) ==
    CASE s.status = "loading"  -> "Looking this indicator up"
      [] s.status = "rejected" -> "That is not an indicator this plugin issued"
      [] s.status = "failed"   -> "This indicator could not be looked up"
      [] s.status = "ready"    -> ""

Rank(ref) == IF ref.tags \cap FixTags # {} THEN 0 ELSE IF "Exploit" \in ref.tags THEN 1 ELSE 2

\* In three ranks; the order within one is the server's.
RankedReferences(refs) == [rank \in 0 .. 2 |-> {ref \in refs : Rank(ref) = rank}]

Summary(d, all) ==
    [text |-> d.summary, clamped |-> d.summary = "long" /\ ~all, more |-> d.summary = "long"]

\* A link to another indicator, an address, or plain text.
ItemHead(item) ==
    IF item.kind # "" /\ item.value # ""
    THEN [opens |-> {[kind |-> item.kind, value |-> item.value]}, anchor |-> "", text |-> item.head]
    ELSE [opens |-> {}, anchor |-> IF item.head # "" THEN item.url ELSE "", text |-> item.head]

SectionHeads(d) == UNION {{ItemHead(item) : item \in ToSet(section.items)} : section \in ToSet(d.sections)}
ItemLinks(d) == UNION {head.opens : head \in SectionHeads(d)}
RelatedLinks(d) == {[kind |-> link.kind, value |-> link.value] : link \in ToSet(d.related)}

Anchors(d) ==
    ({head.anchor : head \in SectionHeads(d)} \cup {r.url : r \in ToSet(d.reports)}
     \cup {c.url : c \in ToSet(d.credits)} \cup {ref.url : ref \in d.references}) \ {""}

DtgLinks(s) == {row.query : row \in ToSet(Details(s).rows) \cup Compiled(s)} \ {""}

Panel(s, all) ==
    LET d == Details(s)
    IN  [note |-> Note(s), title |-> d.title, value |-> IF d.title # d.value THEN d.value ELSE "",
         badges |-> Badges(d), summary |-> Summary(d, all), reports |-> d.reports,
         rows |-> d.rows, vector |-> d.vector, status |-> d.status, watchlist |-> d.watchlist,
         related |-> RelatedLinks(d), affected |-> d.affected, configurations |-> d.configurations,
         references |-> RankedReferences(d.references), items |-> SectionHeads(d),
         credits |-> d.credits, sources |-> Compiled(s)]

-----------------------------------------------------------------------------
Unnamed == [kind |-> "", value |-> ""]
NothingOpen == [of |-> Unnamed, by |-> Unnamed, status |-> "closed", reply |-> 0, fresh |-> FALSE, waits |-> {}]

CyberViewInit ==
    /\ indicator = [v \in Surfaces |-> NothingOpen]
    /\ remembered = [i \in Indicators |-> 0] /\ asking = {}
    /\ expanded = FALSE /\ followed = 0

\* What load settles with: only a ready answer carries its details.
Loaded(i, reply) ==
    LET status == Outcome(i, reply)
    IN  [status |-> status, reply |-> IF status = "ready" THEN reply ELSE 0]

\* fresh(key) ?? LOADING.
FromCache(i) == IF remembered[i] = 0 THEN [status |-> "loading", reply |-> 0] ELSE Loaded(i, remembered[i])

(* Drawn for i, from the cache; until its effect runs, a surface that was  *)
(* drawn for another one before still listens to the other's request.      *)
Rendered(i, waits) ==
    [of |-> i, by |-> i, status |-> FromCache(i).status, reply |-> FromCache(i).reply, fresh |-> TRUE, waits |-> waits]

\* setState, by the request for i or by the effect.
Told(s, i, verdict) == [s EXCEPT !.by = i, !.status = verdict.status, !.reply = verdict.reply, !.waits = {}]

\* The old effect's cleanup, and the new effect.
AfterEffect(s) ==
    CASE ~s.fresh                          -> s
      [] s.fresh /\ remembered[s.of] = 0   -> [s EXCEPT !.fresh = FALSE, !.waits = {s.of}]
      [] s.fresh /\ remembered[s.of] # 0   -> [Told(s, s.of, FromCache(s.of)) EXCEPT !.fresh = FALSE]

Undone == {v \in Surfaces : indicator[v].fresh}    \* surfaces whose effect is still to run

(* React runs the effects some time after it drew, and before it draws     *)
(* again.  An answer may come in between.                                  *)
LookupEffects ==
    /\ Undone # {}
    /\ indicator' = [v \in Surfaces |-> AfterEffect(indicator[v])]
    /\ asking' = asking \cup {i \in {indicator[v].of : v \in Undone} : remembered[i] = 0}
    /\ expanded' = (expanded /\ indicator'["panel"].status = "ready")
    /\ UNCHANGED <<remembered, followed>>

(* setSelection: the panel is drawn again for another indicator without    *)
(* being mounted anew.  A Summary that was there and still is keeps its    *)
(* state; the line drawn in between takes it away.                         *)
Select(i) ==
    /\ Undone = {} /\ indicator["panel"].of # i
    /\ indicator' = [indicator EXCEPT !["panel"] = Rendered(i, @.waits)]
    /\ expanded' = (expanded /\ FromCache(i).status = "ready")
    /\ UNCHANGED <<remembered, asking>>

\* A token in a message is selected only when its link reads (fromParams).
Click(i) == MatchesShape(i) /\ Select(i) /\ UNCHANGED followed

\* The panel's own buttons go straight to the selection.
Follow(i) ==
    /\ indicator["panel"].status = "ready" /\ followed < MaxFollowed
    /\ i \in ItemLinks(Details(indicator["panel"])) \cup RelatedLinks(Details(indicator["panel"]))
    /\ Select(i) /\ followed' = followed + 1

\* A card is mounted for its token.
Hover(i) ==
    /\ MatchesShape(i) /\ Undone = {} /\ indicator["card"].of # i
    /\ indicator' = [indicator EXCEPT !["card"] = Rendered(i, {})]
    /\ UNCHANGED <<remembered, asking, expanded, followed>>

(* The one request for an indicator settles for every surface whose effect *)
(* sent it or found it under way and is not cleaned up yet, be the surface *)
(* drawn for another indicator by now.                                     *)
SettleLookup(i, reply) ==
    /\ i \in asking
    /\ asking' = asking \ {i}
    /\ indicator' = [v \in Surfaces |->
                        IF i \in indicator[v].waits THEN Told(indicator[v], i, Loaded(i, reply)) ELSE indicator[v]]
    /\ remembered' = IF Outcome(i, reply) = "failed" THEN remembered ELSE [remembered EXCEPT ![i] = reply]
    /\ expanded' = (expanded /\ indicator'["panel"].status = "ready")
    /\ UNCHANGED followed

ShowMore ==
    /\ Undone = {} /\ indicator["panel"].status = "ready"
    /\ Summary(Details(indicator["panel"]), expanded).more
    /\ expanded' = ~expanded
    /\ UNCHANGED <<indicator, remembered, asking, followed>>

CyberViewNext ==
    \/ \E i \in Indicators : Click(i) \/ Follow(i) \/ Hover(i)
    \/ \E i \in Indicators, reply \in DOMAIN Replies : SettleLookup(i, reply)
    \/ LookupEffects \/ ShowMore

CyberViewSpec == CyberViewInit /\ [][CyberViewNext]_cyber_view_vars

-----------------------------------------------------------------------------
\* A ready surface shows one whole answer, about the indicator it was
\* judged for.  That is the surface's own, and the surface is past its
\* loading, unless its effect or its own request is still to answer; a
\* card's is its own always.
ShowsItsOwn ==
    \A v \in Surfaces : LET s == indicator[v] IN
        /\ s.status = "ready" => Details(s).kind = s.by.kind /\ Details(s).value = s.by.value
        /\ s.by # s.of \/ s.status = "loading" => s.fresh \/ (s.waits = {s.of} /\ s.of \in asking)
        /\ v = "card" => s.by = s.of

\* A section's link is one a token could carry, a related one of a kind the
\* panel knows; an address is a web address, a time one the reader can open.
LinksAreVouched ==
    indicator["panel"].status = "ready" =>
        LET d == Details(indicator["panel"])
        IN  /\ ItemLinks(d) \subseteq WellShaped
            /\ \A i \in RelatedLinks(d) : i.kind \in IndicatorKinds
            /\ Anchors(d) \subseteq WebLinks
            /\ DtgLinks(indicator["panel"]) \subseteq DtgQueries

\* The card of an indicator claims what its panel does, in all three forms.
ClaimTheSame(card, all) ==
    /\ card.badges = all.badges
    /\ card.malicious = Cardinality({r.source : r \in {x \in ToSet(all.reports) : x.malicious}})
    /\ card.context = {r.threat : r \in {x \in ToSet(all.reports) : ~x.malicious}}
    /\ \A word \in card.verdicts : \E w \in ToSet(all.watchlist) : Plain[w.verdict] = word
    /\ \A w \in ToSet(all.watchlist) : Plain[w.verdict] \in card.verdicts \cup {""}
    /\ card.glance # <<>> => card.credits = all.credits

SameClaims ==
    \A v \in Surfaces :
        indicator[v].status = "ready" => ClaimTheSame(IndicatorCard(indicator[v]), Panel(indicator[v], expanded))

(* What the card over a token claims of an indicator (its severity, who    *)
(* reports it malicious, the operator's verdicts) its panel claims as      *)
(* well; the card's claims are of its own indicator and the panel's too,   *)
(* except that an answer to the one before may stand in it until its own   *)
(* request is answered; and the panel leads only where it may              *)
(* (CyberHover.tsx, CyberPanel.tsx, cyber.ts).                             *)
IndicatorIsTheOneAsked == ShowsItsOwn /\ LinksAreVouched /\ SameClaims
=============================================================================
