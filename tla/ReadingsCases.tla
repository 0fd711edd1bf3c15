---------------------------- MODULE ReadingsCases ----------------------------
(* The model values of the run of LocationReadings: tokens at the edges of *)
(* their fields, links in three states of truth, and a page's documents.   *)
EXTENDS Integers, Sequences

\* Tokens at the edges of their fields: nothing, the last, and one too many.
Half(negative, deg, min, sec, frac, digits) ==
    [negative |-> negative, deg |-> deg, min |-> min, sec |-> sec, frac |-> frac, digits |-> digits, confidence |-> 5]
Digits == [dd |-> {0, 1, 2, 5}, ddh |-> {0, 3}, dms |-> {0, 1}, ddm |-> {1, 3}, latd |-> {0}, latm |-> {0}, vlatm |-> {0}]
Fracs(digits) == IF digits = 0 THEN {0} ELSE {0, 1, 10^digits \div 2, 10^digits \div 3, 10^digits - 1}
Minutes(format) == IF format \in {"dd", "ddh", "latd"} THEN {0} ELSE {0, 6, 59, 60}
Seconds(format) == IF format = "dms" THEN {0, 30, 59, 60} ELSE {0}
Lats(format) ==
    UNION {{Half(n, d, m, s, f, g) : n \in BOOLEAN, d \in {0, 33, 90}, m \in Minutes(format),
                                     s \in Seconds(format), f \in Fracs(g)} : g \in Digits[format]}
Lons(format) ==
    {Half(TRUE, 179, IF Minutes(format) = {0} THEN 0 ELSE 59, IF Seconds(format) = {0} THEN 0 ELSE 59,
          10^g - 1, g) : g \in Digits[format]}
ReadingTokens == UNION {{[format |-> f, lat |-> a, lon |-> b] : a \in Lats(f), b \in Lons(f)} : f \in {"dd", "ddh", "dms", "ddm", "latd", "latm", "vlatm"}}
ReadingDrifts == -1 .. 1

Local == [format |-> "dd", lat |-> Half(FALSE, 34, 0, 0, 1, 1), lon |-> Half(TRUE, 118, 0, 0, 2, 1)]
Remote0(format, zone, digits) == [format |-> format, zone |-> zone, digits |-> digits, fields |-> <<>>]
Link(tok, raw, issued, polar) == [token |-> tok, raw |-> raw, issued |-> issued, polar |-> polar]
ReadingLinks == {Link(Local, "same", TRUE, FALSE), Link(Local, "text", FALSE, FALSE),
            Link(Remote0("mgrs", 18, 8), "text", TRUE, FALSE)}
PageLinks == {Link(tok, raw, TRUE, polar) :
                 tok \in {Local, Remote0("mgrs", 18, 8), Remote0("mgrs", 61, 8), Remote0("utm", 18, 0),
                          Remote0("utm", 0, 0), Remote0("pluscode", 0, 10), Remote0("gars", 1, 0),
                          [format |-> "georef", zone |-> 0, digits |-> 3, fields |-> <<59, 60>>],
                          Remote0("later", 18, 8)},
                 raw \in {"same", "text", "foreign"}, polar \in BOOLEAN}
ReadingShells == [link : PageLinks, conversion : {"whole", "broken"}, maps : {<<>>, <<{}>>, <<{"panel", "page"}>>},
             mode : {"location", "map"}]
=============================================================================
