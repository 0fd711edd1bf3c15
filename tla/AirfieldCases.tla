----------------------------- MODULE AirfieldCases -----------------------------
(* The model values of the runs of AirfieldView and FrequencyReading: two  *)
(* airfields under each of their codes, answers with one part short or     *)
(* odd, and tokens at every edge of the bands.                             *)
EXTENDS Integers, Sequences, TLC

AirfieldLinkCases ==
    {"v" :> "KAAA", "i" :> "AAA", "v" :> "KBBB", "v" :> "AAA", "v" :> "KAAA" @@ "i" :> "AAA", "i" :> "odd"}
AirfieldIdents == {"KAAA", "KBBB"}
AirfieldIatas == {"AAA"}
AirfieldPlace(value) == [format |-> "dd", value |-> value]
AirfieldPlaces == {AirfieldPlace(v) : v \in {"here", "there", "pole"}}
AirfieldDrawable == AirfieldPlaces \ {AirfieldPlace("pole")}

AirfieldRunway(designation) ==
    [designation |-> designation, summary |-> "long", length |-> "1", width |-> "1", surface |-> "", lighted |-> "", closed |-> ""]
RunwayBetween(a, b) == AirfieldRunway("09/27") @@ "ends" :> <<AirfieldPlace(a), AirfieldPlace(b)>>

AirfieldRunways ==
    {<<>>, <<AirfieldRunway("H1"), RunwayBetween("here", "there")>>, <<RunwayBetween("here", "pole")>>,
     <<RunwayBetween("here", "nowhere")>>, <<RunwayBetween("here", "")>>,
     <<AirfieldRunway("09") @@ "ends" :> <<AirfieldPlace("here")>>>>, <<[designation |-> "09"]>>}

AirfieldDetails ==
    [name : {"", "Alpha"}, type : {"large"}, place : {"", "Town"}, elevation : {""}, iata : {"", "AAA"},
     military : {"", "joint"}, runways : AirfieldRunways,
     frequencies : {<<[type |-> "TWR", description |-> "", mhz |-> "118.3"]>>}]
    \cup {[name |-> "Alpha", runways |-> <<>>]}

AirfieldCoordinates ==
    {<<>>} \cup {"coordinate" :> (AirfieldPlace(v) @@ "region" :> "") : v \in {"here", "odd", ""}}
    \cup {"coordinate" :> AirfieldPlace("here")}

AirfieldBodies ==
    {[found |-> TRUE, ident |-> "KAAA", iata |-> "AAA", airport |-> d] @@ c : d \in AirfieldDetails, c \in AirfieldCoordinates}
    \cup {[found |-> FALSE, ident |-> i, iata |-> a] : i \in {"", "KAAA", "odd"}, a \in {"", "AAA", "odd"}}
    \cup {[found |-> TRUE, ident |-> "KBBB", iata |-> ""]}

AirfieldReplyCases == {[http |-> 200, body |-> b] : b \in AirfieldBodies} \cup {[http |-> c, body |-> <<>>] : c \in {400, 503}}

FrequencyTokenCases ==
    [whole : {0, 1, 2, 30, 107, 108, 117, 118, 121, 136, 137, 406, 1299, 1300, 1301, 1999, 2000, 8992, 30001, 99999},
     digits : 4..5, fraction : UNION {[1..n -> {0, 5, 7, 9}] : n \in 0..3}, unit : {"", "MHZ", "KHZ", "GHZ"}]
=============================================================================
