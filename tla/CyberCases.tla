------------------------------ MODULE CyberCases ------------------------------
(* The model values of the run of CyberView: one whole answer, and what    *)
(* each part of it may be instead; answers that are short of a part, or    *)
(* are about something else.                                               *)
EXTENDS Integers, Sequences, TLC

Flaw  == [kind |-> "cve", value |-> "CVE"]
Class == [kind |-> "cwe", value |-> "CWE"]
Unissued   == [kind |-> "cwe", value |-> "unissued"]
CyberIndicators == {Flaw, Class, Unissued}
CyberWellShaped == {Flaw, Class}
CyberPlain == "malicious" :> "malicious" @@ " Malicious" :> "malicious" @@ " " :> "" @@ "benign" :> "benign"

NoGlance == [subtitle |-> "", summary |-> "", tags |-> <<>>, facts |-> <<>>, status |-> ""]
Bare(i) ==
    [kind |-> i.kind, value |-> i.value, title |-> i.value, headline |-> "line", summary |-> "", status |-> "",
     score |-> "", severity |-> "", rows |-> <<>>, related |-> <<>>, watchlist |-> <<>>, datasets |-> <<>>,
     vector |-> <<>>, affected |-> <<>>, configurations |-> <<>>, references |-> <<>>, sections |-> <<>>,
     credits |-> <<>>, glance |-> NoGlance, reports |-> <<>>]

Item(i, url) == [head |-> "head", text |-> "", kind |-> i.kind, value |-> i.value, url |-> url]
NoIndicator == [kind |-> "", value |-> ""]
Observed(items) == <<[title |-> "Observed", items |-> items]>>
ThreatReport(source, url) == [source |-> source, threat |-> "scanner", detail |-> "", url |-> url]
Malicious(source) == ThreatReport(source, "web") @@ [malicious |-> TRUE]
Watch(verdict) == [verdict |-> verdict, source |-> "list", note |-> "", updated |-> ""]
Reference(url, tags) == [url |-> url, tags |-> tags]

Parts ==
    <<<<"summary", "short">>, <<"summary", "long">>, <<"title", "Name">>, <<"status", "No dataset holds it">>,
     <<"score", "9.8">>, <<"severity", "high">>, <<"severity", "dire">>,
     <<"rows", <<[label |-> "Seen", value |-> "text", query |-> "dtg"], [label |-> "At", value |-> "a/b", query |-> "odd"]>>>>,
     <<"rows", <<[label |-> "Seen", value |-> "text"]>>>>,
     <<"related", <<[kind |-> "cwe", value |-> "CWE", label |-> "CWE Name"]>>>>,
     <<"related", <<[kind |-> "cwe", value |-> "unissued", label |-> "Name"]>>>>,
     <<"related", <<[kind |-> "port", value |-> "22", label |-> "Name"]>>>>,
     <<"watchlist", <<Watch(" Malicious"), Watch("malicious"), Watch(" ")>>>>, <<"watchlist", <<Watch(" ")>>>>,
     <<"vector", <<[metric |-> "Attack", value |-> "Network", severe |-> TRUE]>>>>,
     <<"affected", <<"Product: 1">>>>, <<"configurations", <<"Product">>>>,
     <<"references", <<Reference("web", {}), Reference("ftp", {"Patch"}), Reference("fix", {"Patch", "Exploit"})>>>>,
     <<"sections", Observed(<<Item(Class, ""), Item(Unissued, "web"), Item(NoIndicator, "ftp")>>)>>,
     <<"sections", <<[title |-> "Observed", items |-> <<[head |-> "head"]>>]>>>>,
     <<"credits", <<[text |-> "Vendor", url |-> "web"], [text |-> "Other", url |-> "ftp"]>>>>,
     <<"reports", <<Malicious("one"), Malicious("one"), Malicious("two"), ThreatReport("three", "ftp")>>>>,
     <<"reports", <<ThreatReport("three", "")>>>>,
     <<"glance", [NoGlance EXCEPT !.summary = "short"]>>, <<"glance", [NoGlance EXCEPT !.tags = <<"tag">>]>>>>

Without(wire, field) == [f \in DOMAIN wire \ {field} |-> wire[f]]
Sent(body) == [http |-> 200, body |-> body]
Silent(code) == [http |-> code, body |-> NoGlance]

WithPart(i, part) == [f \in DOMAIN Bare(i) |-> IF f = part[1] THEN part[2] ELSE Bare(i)[f]]
EveryPart == [n \in DOMAIN Parts |-> Sent(WithPart(Flaw, Parts[n]))]
Flags == [exploited |-> TRUE, compiled |-> <<[label |-> "NVD", file |-> "nvd", date |-> "then", query |-> "dtg"], [label |-> "KEV"]>>]

Rich ==
    [[Bare(Flaw) EXCEPT !.summary = "long", !.severity = "critical", !.credits = <<[text |-> "Vendor", url |-> "web"]>>,
                        !.related = <<[kind |-> "cwe", value |-> "CWE", label |-> "CWE Name"]>>]
        EXCEPT !.watchlist = <<Watch("benign")>>, !.reports = <<Malicious("one"), ThreatReport("three", "web")>>]

CyberReplies ==
    EveryPart \o <<Sent(Rich), Sent(Bare(Flaw) @@ Flags), Sent(Rich @@ Flags), Sent(Without(Rich, "glance")),
                   Sent(Without(Rich, "score")), Sent(Bare(Class)), Sent([Bare(Class) EXCEPT !.summary = "long"]),
                   Sent([Bare(Unissued) EXCEPT !.severity = "low"]), Silent(400), Silent(503)>>
=============================================================================
