--------------------------- MODULE FrequencyReading ---------------------------
(***************************************************************************)
(* A radio frequency as the web app reads its token and writes it out      *)
(* (webapp/src/decorators/frequency).                                      *)
(*                                                                         *)
(* A token is its whole number with the digits it is written in, the       *)
(* digits of its fraction (none without a point) and its unit.             *)
(***************************************************************************)
EXTENDS Integers, Sequences

CONSTANT FrequencyTokens   \* [whole, digits, fraction, unit]

VARIABLE frequency         \* the token of the link that was opened

MIN_KHZ == 2000
MAX_KHZ == 1300000
VHF_AIR_LOW == 118000
VHF_AIR_HIGH == 136975

Decimal(t) == t.fraction # <<>>

\* TOKEN.
IsToken(t) ==
    /\ t.unit \in {"", "MHZ", "KHZ"}
    /\ IF Decimal(t) THEN t.digits \in 1..4 /\ Len(t.fraction) <= 3 ELSE t.digits \in 4..5

\* A fraction is filled up to thousandths from the right.
Thousandths(fraction) ==
    LET digit(n) == IF n \in DOMAIN fraction THEN fraction[n] ELSE 0
    IN  100 * digit(1) + 10 * digit(2) + digit(3)

Unit(t) == IF t.unit # "" THEN t.unit ELSE IF Decimal(t) THEN "MHZ" ELSE "KHZ"

\* Kilohertz, as a set of at most one: a fraction of a kilohertz is none.
ToKHz(t) ==
    CASE Unit(t) = "MHZ" -> {t.whole * 1000 + Thousandths(t.fraction)}
      [] Unit(t) = "KHZ" -> IF Thousandths(t.fraction) = 0 THEN {t.whole} ELSE {}

ParseToken(t) == IF IsToken(t) THEN ToKHz(t) \cap MIN_KHZ..MAX_KHZ ELSE {}

-----------------------------------------------------------------------------
BANDS ==
    {[low |-> 2000, high |-> 30000, name |-> "HF aeronautical"],
     [low |-> 108000, high |-> 117975, name |-> "VHF navigation"],
     [low |-> VHF_AIR_LOW, high |-> VHF_AIR_HIGH, name |-> "VHF air band"],
     [low |-> 156000, high |-> 162025, name |-> "VHF marine"],
     [low |-> 225000, high |-> 400000, name |-> "UHF military air band"],
     [low |-> 406000, high |-> 406100, name |-> "Distress beacons"]}

ALLOCATIONS ==
    {[khz |-> 121500, use |-> "Aeronautical emergency"], [khz |-> 123100, use |-> "Search and rescue"],
     [khz |-> 122750, use |-> "Air-to-air, fixed wing"], [khz |-> 123450, use |-> "Air-to-air"],
     [khz |-> 243000, use |-> "UHF military emergency"], [khz |-> 156800, use |-> "Marine channel 16"],
     [khz |-> 406000, use |-> "Distress beacon"]}

\* None: "Outside the aviation bands this plugin names".
BandOf(khz) == {band.name : band \in {b \in BANDS : khz \in b.low..b.high}}
ChannelOf(khz) ==
    IF khz \notin VHF_AIR_LOW..VHF_AIR_HIGH THEN "" ELSE IF khz % 25 = 0 THEN "25 kHz" ELSE "8.33 kHz"
AllocationOf(khz) == {a.use : a \in {x \in ALLOCATIONS : x.khz = khz}}

MhzText(khz) ==
    [whole |-> khz \div 1000, digits |-> IF khz >= 1000000 THEN 4 ELSE 1,
     fraction |-> <<(khz % 1000) \div 100, (khz % 100) \div 10, khz % 10>>, unit |-> ""]

Describe(khz) ==
    [mhz |-> MhzText(khz), khz |-> khz, band |-> BandOf(khz), channel |-> ChannelOf(khz), use |-> AllocationOf(khz)]

\* The panel: token and band, and a row for each reading that is not empty.
Panel(t, khz) ==
    LET d == Describe(khz)
    IN  [token |-> t, band |-> d.band,
         rows |-> {"MHz", "kHz"} \cup {r \in {"Channel"} : d.channel # ""} \cup {r \in {"Use"} : d.use # {}},
         copied |-> {d.mhz, [whole |-> d.khz, digits |-> 0, fraction |-> <<>>, unit |-> "KHZ"]}]

\* What a link may carry is opened only when it reads (fromParams).
FrequencyInit == frequency \in {t \in FrequencyTokens : ParseToken(t) # {}}

Card(khz) == [mhz |-> Describe(khz).mhz, band |-> Describe(khz).band, use |-> Describe(khz).use]

-----------------------------------------------------------------------------
Power(n) == IF n = 0 THEN 1 ELSE IF n = 1 THEN 10 ELSE IF n = 2 THEN 100 ELSE 1000
DigitsOf(s) == IF Len(s) = 0 THEN 0 ELSE IF Len(s) = 1 THEN s[1]
               ELSE IF Len(s) = 2 THEN 10 * s[1] + s[2] ELSE 100 * s[1] + 10 * s[2] + s[3]

\* As much as was written: whole + digits / 10^length, in the unit written.
IsWhatWasWritten(t, khz) ==
    LET scaled == t.whole * Power(Len(t.fraction)) + DigitsOf(t.fraction)
    IN  khz * Power(Len(t.fraction)) = scaled * (IF Unit(t) = "MHZ" THEN 1000 ELSE 1)

(* Every notation of a frequency is the frequency the author wrote, card   *)
(* and panel agree on it, it lies in one band at most, and a channel or a  *)
(* use is only named inside a band (frequency/index.ts, bands.ts).         *)
FrequencyIsTheOneWritten ==
    \A khz \in ParseToken(frequency) :
        LET panel == Panel(frequency, khz)
        IN  /\ IsWhatWasWritten(frequency, khz)
            /\ \A text \in panel.copied : text.digits > 0 => ParseToken(text) = {khz}
            /\ \A a, b \in panel.band : a = b
            /\ ("Channel" \in panel.rows) = (panel.band = {"VHF air band"})
            /\ "Use" \in panel.rows => panel.band # {}
            /\ Card(khz).band = panel.band /\ Card(khz).mhz \in panel.copied
=============================================================================
