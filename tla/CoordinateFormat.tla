-------------------------- MODULE CoordinateFormat --------------------------
(***************************************************************************)
(* What a coordinate's canonical token says and how it is written out:     *)
(* webapp/src/decorators/location/format.ts.                               *)
(*                                                                         *)
(* A local token has two halves, each with its own fields and its own      *)
(* count of fractional digits; every other notation is worked out from it  *)
(* by division.  The grid and area tokens need the server's projection,    *)
(* and only the size of their cell is known here.  Angles are counted in   *)
(* thousandths of a second.  A floating-point value is the exact one give  *)
(* or take one of them (`drift`): it is how a tie is broken and which side *)
(* of a whole minute a floor falls.                                        *)
(***************************************************************************)
EXTENDS Integers, Sequences, FiniteSets

CONSTANTS
    CoordinateTokens,  \* the tokens written out
    Drifts             \* the errors of a floating-point value

VARIABLES
    token,   \* the token of a link
    drift,   \* the error of its two halves
    reading  \* its readings, once worked out

coordinate_vars == <<token, drift, reading>>

None == [none |-> TRUE]

Unit == 3600000   \* a degree
Minute == 60000
Second == 1000

MaxDegrees == [lat |-> 90, lon |-> 180]
LocalFormats == {"dd", "ddh", "dms", "ddm", "latd", "latm", "vlatm"}
RemoteFormats == {"mgrs", "utm", "georef", "gars", "pluscode"}

-----------------------------------------------------------------------------
\* The smallest field of each grammar, which its fraction divides.
FieldOf == [dd |-> Unit, ddh |-> Unit, latd |-> Unit,
            latm |-> Minute, vlatm |-> Minute, ddm |-> Minute, dms |-> Second]

ResolutionAt(format, digits) == FieldOf[format] \div 10^digits

\* frac is a whole number of the smallest steps; min and sec are 0 where the
\* grammar has none.
Magnitude(format, half) ==
    half.deg * Unit + half.min * Minute + half.sec * Second
        + half.frac * ResolutionAt(format, half.digits)

FieldsOK(half) == half.min < 60 /\ half.sec < 60

InRange(t) ==
    \A side \in {"lat", "lon"} : Magnitude(t.format, t[side]) <= MaxDegrees[side] * Unit

\* The canonical shape of a grid or area token: a zone or band, the numbers it
\* carries and how many digits or letters it is written with.
RemoteShape(t) ==
    CASE t.format = "mgrs"     -> t.zone \in 1 .. 60 /\ t.digits \in {2, 4, 6, 8, 10}
      [] t.format = "utm"      -> t.zone \in 1 .. 60
      [] t.format = "georef"   -> t.digits \in 2 .. 4 /\ \A i \in DOMAIN t.fields : t.fields[i] < 60
      [] t.format = "gars"     -> /\ t.zone \in 1 .. 720 /\ Len(t.fields) <= 2
                                  /\ Len(t.fields) >= 1 => t.fields[1] \in 1 .. 4
                                  /\ Len(t.fields) = 2 => t.fields[2] \in 1 .. 9
      [] t.format = "pluscode" -> t.digits \in {4, 6, 8} \cup 10 .. 15
      [] OTHER                 -> FALSE

\* isCanonical: a local token of a known grammar is of its shape by its form.
IsCanonical(t) == t.format \in LocalFormats \/ RemoteShape(t)

AxisOf(t, side, error) ==
    LET exact == Magnitude(t.format, t[side])
    IN  [negative   |-> t[side].negative,
         value      |-> IF exact % Unit = 0 THEN exact ELSE exact + error,
         confidence |-> IF t.format = "vlatm" THEN <<t[side].confidence>> ELSE <<>>,
         digits     |-> t[side].digits]

Coarser(a, b) == IF a < b THEN a ELSE b

ParseCanonical(t, error) ==
    IF t.format \notin LocalFormats THEN None
    ELSE IF ~FieldsOK(t.lat) \/ ~FieldsOK(t.lon) \/ ~InRange(t) THEN None
    ELSE [lat |-> AxisOf(t, "lat", error), lon |-> AxisOf(t, "lon", error), format |-> t.format,
          digits |-> Coarser(t.lat.digits, t.lon.digits)]

-----------------------------------------------------------------------------
\* How finely the pair is known, and how finely one half is.
PairResolution(c) == ResolutionAt(c.format, c.digits)
AxisResolution(c, axis) == ResolutionAt(c.format, axis.digits)

\* The fewest decimal places whose step is no coarser than the resolution.
PlacesFor(resolution, whole) ==
    CHOOSE p \in 0 .. 20 : /\ resolution * 10^p >= whole
                           /\ \A q \in 0 .. p - 1 : resolution * 10^q < whole

Round(v, step) == (v + step \div 2) \div step

\* A reading of one half: its hemisphere, its fields, and the step the last of
\* them counts in.
Written(axis, fields, step) == [negative |-> axis.negative, fields |-> fields, step |-> step]

AxisDecimal(axis, resolution) ==
    LET step == Unit \div 10^PlacesFor(resolution, Unit)
    IN  Written(axis, <<Round(axis.value, step)>>, step)

WholeDegrees(axis) == Written(axis, <<Round(axis.value, Unit)>>, Unit)

SplitMinutes(axis, step) ==
    LET deg == axis.value \div Unit
        min == Round(axis.value % Unit, step)
        carry == min * step >= Unit
    IN  Written(axis, IF carry THEN <<deg + 1, min - Unit \div step>> ELSE <<deg, min>>, step)

\* Without the carry of a second rounded up to sixty.
SplitSecondsAsTheyFall(axis, step) ==
    LET rest == axis.value % Unit
    IN  Written(axis, <<axis.value \div Unit, rest \div Minute, Round(rest % Minute, step)>>, step)

SplitSeconds(axis, step) ==
    LET rest == axis.value % Unit
        sec == Round(rest % Minute, step)
        over == IF sec * step >= Minute THEN 1 ELSE 0
        min == rest \div Minute + over
        more == IF min >= 60 THEN 1 ELSE 0
    IN  Written(axis, <<axis.value \div Unit + more, min - 60 * more, sec - over * (Minute \div step)>>, step)

\* Below a second the seconds take decimals; above it they are whole.
SecondStep(resolution) ==
    IF resolution < Second THEN Second \div 10^PlacesFor(resolution, Second) ELSE Second

MinuteStep(resolution) ==
    IF resolution < Minute THEN Minute \div 10^PlacesFor(resolution, Minute) ELSE Minute

AxisDMS(axis, resolution) ==
    IF resolution >= Unit THEN WholeDegrees(axis)
    ELSE IF resolution >= Minute THEN SplitMinutes(axis, Minute)
    ELSE SplitSeconds(axis, SecondStep(resolution))

AxisDDM(axis, resolution) ==
    IF resolution >= Unit THEN WholeDegrees(axis) ELSE SplitMinutes(axis, MinuteStep(resolution))

\* The same field sets at a fixed width of degrees, and at the pair's resolution.
AxisUSMTF(axis, resolution, width) == [AxisDMS(axis, resolution) EXCEPT !.fields = <<width>> \o @]

Both(c, notation(_, _)) ==
    [lat |-> notation(c.lat, AxisResolution(c, c.lat)), lon |-> notation(c.lon, AxisResolution(c, c.lon))]

DecimalText(c) == Both(c, AxisDecimal)
DmsText(c) == Both(c, AxisDMS)
DdmText(c) == Both(c, AxisDDM)
UsmtfText(c) == [lat |-> AxisUSMTF(c.lat, PairResolution(c), 2), lon |-> AxisUSMTF(c.lon, PairResolution(c), 3)]

ConfidenceText(c) ==
    IF <<>> \in {c.lat.confidence, c.lon.confidence} THEN <<>> ELSE c.lat.confidence \o c.lon.confidence

-----------------------------------------------------------------------------
\* The side of an area token's cell; below ten characters a Plus Code divides by
\* twenty a pair, then by four a character.
AreaCell(t) ==
    CASE t.format = "georef"   -> Minute \div 10^(t.digits - 2)
      [] t.format = "gars"     -> <<30, 15, 5>>[Len(t.fields) + 1] * Minute
      [] t.format = "pluscode" -> IF t.digits <= 10 THEN (20 * Unit) \div 20^(t.digits \div 2 - 1)
                                  ELSE 450 \div 4^(t.digits - 10)

\* The side of a token's cell, of the globe or of the grid in meters: nothing
\* is claimed for a token this build cannot read.
RemoteCell(t) ==
    CASE t.format = "utm" -> [meters |-> 1]
      [] t.format = "mgrs" /\ RemoteShape(t) -> [meters |-> 100000 \div 10^(t.digits \div 2)]
      [] t.format \in {"georef", "gars", "pluscode"} /\ RemoteShape(t) -> [angle |-> AreaCell(t)]
      [] OTHER -> None

\* The rectangle drawn: of each half where there is a position here, and
\* otherwise of the cell, wider in longitude by the latitude the server found.
CellDegrees(c, t, latKnown) ==
    IF c # None THEN <<AxisResolution(c, c.lat), AxisResolution(c, c.lon)>>
    ELSE IF RemoteCell(t) = None \/ ~latKnown THEN <<0, 0>>
    ELSE <<RemoteCell(t), [stretched |-> RemoteCell(t)]>>

\* A grid token spaced into its parts; nothing for one of another shape.
GridText(t) == IF t.format \in {"mgrs", "utm"} /\ RemoteShape(t) THEN t ELSE None

-----------------------------------------------------------------------------
ReadingsOf(c) ==
    [decimal |-> DecimalText(c), dms |-> DmsText(c), ddm |-> DdmText(c), usmtf |-> UsmtfText(c)]

CoordinateInit ==
    /\ token \in CoordinateTokens /\ drift \in Drifts
    /\ reading = None

\* The panel writes a token's readings.
WriteOut ==
    /\ reading = None
    /\ LET c == ParseCanonical(token, drift)
       IN  reading' = IF c = None THEN [refused |-> IsCanonical(token)] ELSE ReadingsOf(c)
    /\ UNCHANGED <<token, drift>>

-----------------------------------------------------------------------------
\* What a reader takes a reading to be, by the rules of its notation.
ReadBack(r) ==
    CASE Len(r.fields) = 1 -> r.fields[1] * r.step
      [] Len(r.fields) = 2 -> r.fields[1] * Unit + r.fields[2] * r.step
      [] Len(r.fields) = 3 -> r.fields[1] * Unit + r.fields[2] * Minute + r.fields[3] * r.step

Legal(r) ==
    /\ Len(r.fields) = 2 => r.fields[2] * r.step < Unit
    /\ Len(r.fields) = 3 => r.fields[2] < 60 /\ r.fields[3] * r.step < Minute

\* Read back and rounded to what its author wrote, it is what he wrote.
NamesTheHalf(r, side) ==
    LET exact == Magnitude(token.format, token[side])
        own == ResolutionAt(token.format, token[side].digits)
    IN  /\ Legal(r) /\ r.negative = token[side].negative
        /\ Round(ReadBack(r), own) * own = exact
        /\ r.step <= own /\ own < 60 * r.step

\* Both halves in one shape, which the coarser of them chose.
NamesThePair(r, side) ==
    LET exact == Magnitude(token.format, token[side])
        pair == ResolutionAt(token.format, Coarser(token.lat.digits, token.lon.digits))
        plain == [r EXCEPT !.fields = Tail(@)]
    IN  /\ Legal(plain) /\ plain.negative = token[side].negative
        /\ plain.fields[1] < 10^r.fields[1]
        /\ ReadBack(plain) - exact \in -(pair \div 2) - 1 .. pair \div 2 + 1
        /\ plain.step <= pair

(* Every notation of a coordinate names the cell its author wrote and no   *)
(* other: read back and rounded to the digits that half was written with   *)
(* it is the token again, with no field of sixty, no half pulled to the    *)
(* other's coarser resolution, no place rounded to the wrong side of the   *)
(* equator, and no digit finer than the next field.  A token out of range, *)
(* or with a field of sixty of its own, is not written out at all.         *)
NotationsNameTheCell ==
    reading # None /\ token.format \in LocalFormats =>
        IF reading = [refused |-> TRUE]
        THEN \E side \in {"lat", "lon"} :
                 \/ token[side].min >= 60 \/ token[side].sec >= 60
                 \/ Magnitude(token.format, token[side]) > MaxDegrees[side] * Unit
        ELSE \A side \in {"lat", "lon"} :
                 /\ \A n \in {"decimal", "dms", "ddm"} : NamesTheHalf(reading[n][side], side)
                 /\ NamesThePair(reading.usmtf[side], side)
=============================================================================
