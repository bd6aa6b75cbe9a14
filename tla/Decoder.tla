------------------------------ MODULE Decoder ------------------------------
(***************************************************************************)
(* Decode and DecodePCIeEye: what is made of the JSON mlxlink printed.     *)
(*                                                                         *)
(* Most of it is a function of the response. Two loops range over a Go     *)
(* map, the FEC bins and the SerDes lanes, and a map is visited in any     *)
(* order: they are steps, one per key, and each may return early.          *)
(*                                                                         *)
(* A text is opaque. What package strings and strconv make of it is given  *)
(* by the constants; what the decoder then makes of that is modelled.      *)
(* A list of samples is a set of entries, each with the place it was read  *)
(* at: Prometheus sorts series, so the order of the list does not matter,  *)
(* but two entries with the same lane do.                                  *)
(*                                                                         *)
(* A definition whose comment begins with "Faulty:" is a slip the code     *)
(* could have made in the definition below it; no action uses it.          *)
(***************************************************************************)
EXTENDS Integers, Sequences, FiniteSets

CONSTANTS
    Texts,          \* the strings of a response
    Trim,           \* strings.TrimSpace
    Uint,           \* the decimal number a text is, or NoNumber
    Float,          \* strconv.ParseFloat, with NonFinite and Invalid
    NotAvailable,   \* the texts that are "n/a" up to case
    Unranged,       \* the text before a trailing "[...]", if any precedes it
    Unbracketed,    \* the text inside "[...]", unless that is empty
    Commas, Colons, \* the text split at them
    MaxInt,         \* the largest int; the largest uint64 is twice it plus one
    Invalid,        \* no number
    NonFinite,      \* an infinity, or not a number
    Responses       \* what mlxlink may print

NoNumber == -1
NoText == "no text"
MaxUint == 2 * MaxInt + 1

\* A value under a key: a string, a {"values": [...]} of strings, or neither,
\* which includes no value at all: the code does not tell these apart.
Raw == [kind : {"other"}] \cup [kind : {"text"}, text : Texts]
       \cup [kind : {"values"}, values : Seq(Texts)]

-----------------------------------------------------------------------------
(* The fields, and what is expected under each.                            *)

LinkLabels == {"state", "physical_state", "speed", "width", "fec", "auto_negotiation"}
ModuleLabels == {"identifier", "vendor", "part_number", "serial_number", "revision",
                 "firmware_version", "active_host_compliance",
                 "active_media_compliance", "cable_type"}
Measured == {"effective_physical_errors", "link_down", "link_error_recovery",
             "effective_ber", "raw_ber", "temperature", "voltage"}
Flags == {"module_fw_fault", "datapath_fw_fault"}
ListedLanes == {"raw_errors_per_lane", "raw_ber_per_lane"}
CommaLanes == {"bias_current", "rx_power", "tx_power"}
FlagLanes == {"tx_fault", "tx_los", "rx_los", "tx_cdr_lol", "rx_cdr_lol"}
StateLanes == {"datapath_state"}

Labels == LinkLabels \cup ModuleLabels
PositionalLanes == ListedLanes \cup CommaLanes \cup FlagLanes \cup StateLanes
Fields == Labels \cup Measured \cup Flags \cup PositionalLanes

FOMs == {"Initial FOM", "Last FOM"}
Grades == {"Upper Grades", "Mid Grades", "Lower Grades"}
FIRTaps == {"fir_pre3", "fir_pre2", "fir_pre1", "fir_main", "fir_post1"}

\* What becomes a series, or one per lane.
Families == Measured \cup Flags \cup PositionalLanes \cup FOMs \cup Grades
            \cup {"fec_histogram", "fir", "drv_amp"}

\* mV and mA.
Divisor(field) == IF field \in {"voltage", "bias_current"} THEN 1000 ELSE 1

\* fields: the module, operational and counter sections, whose names differ.
\* bins and lanes: what follows "Bin " or "Lane " in a key of their sections.
\* eye: the section that call reads.
IsResponse(r) ==
    /\ r.call \in {"Decode", "DecodePCIeEye"}
    /\ r.json \in BOOLEAN /\ r.status \in Nat /\ r.output \in {"object", "missing", "misshapen"}
    /\ r.fields \in [Fields -> Raw]
    /\ r.fecHeader \in Raw /\ DOMAIN r.bins \subseteq Texts /\ r.bins \in [DOMAIN r.bins -> Raw]
    /\ r.serdesHeader \in Raw
    /\ DOMAIN r.lanes \subseteq Texts /\ r.lanes \in [DOMAIN r.lanes -> Raw]
    /\ r.eye \in [FOMs \cup Grades \cup {"Lane"} -> Raw]

ASSUME DecoderAssumption ==
    /\ Texts \subseteq STRING /\ "" \in Texts
    /\ Trim \in [Texts -> Texts]
    /\ Uint \in [Texts -> Nat \cup {NoNumber}]
    /\ Invalid \notin Int /\ NonFinite \notin Int
    /\ Float \in [Texts -> Int \cup {Invalid, NonFinite}]
    /\ NotAvailable \subseteq Texts
    /\ Unranged \in [Texts -> Texts \cup {NoText}] /\ NoText \notin Texts
    /\ Unbracketed \in [Texts -> Texts \cup {NoText}]
    /\ Commas \in [Texts -> Seq(Texts)] /\ Colons \in [Texts -> Seq(Texts) \ {<<>>}]
    /\ MaxInt \in Nat
    /\ \A r \in Responses : IsResponse(r)

VARIABLES
    response,   \* what is decoded
    pc,         \* "output", the loops "bins" and "lanes", or "done"
    left,       \* the keys of the map that is being ranged over
    bins,       \* binsByNumber
    lanes,      \* the map serDesLanes builds
    error,      \* what was wrong with the response as a whole
    data        \* what was decoded: the labels, and the samples of each family

vars == <<response, pc, left, bins, lanes, error, data>>

-----------------------------------------------------------------------------
(* Conversions.                                                            *)

StringField(field) ==
    IF response.fields[field].kind = "text" THEN Trim[response.fields[field].text] ELSE ""

\* No list reads as one without elements: neither is of use to any caller.
RawValues(raw) == IF raw.kind = "values" THEN raw.values ELSE <<>>
ValuesField(field) == RawValues(response.fields[field])

FiniteValue(number) == IF number = NonFinite THEN Invalid ELSE number
ParseFiniteFloat(text) == FiniteValue(Float[Trim[text]])

TrimRangeSuffix(text) ==
    IF Unranged[Trim[text]] = NoText THEN Trim[text] ELSE Trim[Unranged[Trim[text]]]

ParseFloatSafe(text) ==
    LET trimmed == TrimRangeSuffix(text)
    IN  IF trimmed = "" \/ trimmed \in NotAvailable THEN Invalid ELSE FiniteValue(Float[trimmed])

ParseFlag(text) ==
    CASE Trim[text] = "0" -> 0 [] Trim[text] = "1" -> 1 [] OTHER -> Invalid

\* Only the literal active state is active; a lane without a state is not.
ParseState(text) ==
    CASE Trim[text] = "DPActivated" -> 1
      [] Trim[text] = "" \/ Trim[text] \in NotAvailable -> Invalid
      [] OTHER -> 0

ParseUint(text) == IF Uint[text] <= MaxUint THEN Uint[text] ELSE NoNumber

\* Faulty: a number too large for an int is wrapped (TypeOK).
ParseWrappedInt(text) == IF Uint[text] > MaxInt THEN Uint[text] - MaxUint - 1 ELSE Uint[text]

ParseNonnegativeInt(text) == IF Uint[text] <= MaxInt THEN Uint[text] ELSE NoNumber

-----------------------------------------------------------------------------
(* Samples that do not depend on the order of a map. at is the place of a  *)
(* sample in its list; a number keeps its unit, the divisor.               *)

Sample(at, lane, tag, number, unit) ==
    [at |-> at, lane |-> lane, tag |-> tag, number |-> number, unit |-> unit]

Scalar(number, unit) == IF number = Invalid THEN {} ELSE {Sample(1, 0, <<>>, number, unit)}

\* Faulty: the lanes left after an unreadable one are renumbered (LanesLineUp).
LaneValuesRenumbered(values, unit) ==
    LET Readable(n) == {i \in 1..n : ParseFloatSafe(values[i]) # Invalid}
    IN  {Sample(i, Cardinality(Readable(i)) - 1, <<>>, ParseFloatSafe(values[i]), unit) :
            i \in Readable(Len(values))}

\* The lane is the position in the list; an unreadable one has no sample.
LaneValues(values, unit) ==
    {Sample(i, i - 1, <<>>, ParseFloatSafe(values[i]), unit) :
        i \in {j \in DOMAIN values : ParseFloatSafe(values[j]) # Invalid}}

CommaLaneValues(text, unit) ==
    IF TrimRangeSuffix(text) = "" THEN {} ELSE LaneValues(Commas[TrimRangeSuffix(text)], unit)

\* Faulty: only the unreadable lanes of the family are dropped (LanesLineUp).
LaneFlagsEach(values) ==
    {Sample(i, i - 1, <<>>, ParseFlag(values[i]), 1) :
        i \in {j \in DOMAIN values : ParseFlag(values[j]) # Invalid}}

\* All of a family or none of it.
LaneFlags(values) ==
    IF \E i \in DOMAIN values : ParseFlag(values[i]) = Invalid THEN {}
    ELSE {Sample(i, i - 1, <<>>, ParseFlag(values[i]), 1) : i \in DOMAIN values}

LaneStates(values) ==
    IF \E i \in DOMAIN values : ParseState(values[i]) = Invalid THEN {}
    ELSE {Sample(i, i - 1, <<>>, ParseState(values[i]), 1) : i \in DOMAIN values}

UniqueEyeLanes(rows) ==
    /\ \A i \in DOMAIN rows : ParseNonnegativeInt(Trim[rows[i]]) # NoNumber
    /\ \A i, j \in DOMAIN rows :
         ParseNonnegativeInt(Trim[rows[i]]) = ParseNonnegativeInt(Trim[rows[j]]) => i = j

EyeFamilies(sec, fields, laneCount) == \A field \in fields : Len(RawValues(sec[field])) = laneCount

\* Faulty: a lane unreadable in one family is kept in the others (EyeLanesAgree).
EyeLaneScore(sec, fields, field, i) == ParseFiniteFloat(RawValues(sec[field])[i]) # Invalid

\* One lane's score in every family, or in none.
EyeLaneScores(sec, fields, field, i) ==
    \A family \in fields : ParseFiniteFloat(RawValues(sec[family])[i]) # Invalid

DecodeEyeLaneValues(sec, fields, field) ==
    LET rows == RawValues(sec["Lane"])
    IN  IF Len(rows) > 0 /\ EyeFamilies(sec, fields, Len(rows)) /\ UniqueEyeLanes(rows)
        THEN {Sample(i, ParseNonnegativeInt(Trim[rows[i]]), <<>>,
                     ParseFiniteFloat(RawValues(sec[field])[i]), 1) :
                i \in {j \in DOMAIN rows : EyeLaneScores(sec, fields, field, j)}}
        ELSE {}

-----------------------------------------------------------------------------
(* The FEC histogram.                                                      *)

HasFECHeader == RawValues(response.fecHeader) = <<"Range", "Occurrences">>

\* The bounds of "[a]" or "[a:b]"; <<NoNumber, NoNumber>> when it is neither.
ParseFECRange(text) ==
    LET parts == IF Unbracketed[Trim[text]] = NoText THEN <<>>
                 ELSE Colons[Unbracketed[Trim[text]]]
        Bound(i) == ParseUint(Trim[parts[i]])
    IN  CASE Len(parts) = 1 -> <<Bound(1), Bound(1)>>
          [] Len(parts) = 2 /\ Bound(1) # NoNumber /\ Bound(1) <= Bound(2) -> <<Bound(1), Bound(2)>>
          [] OTHER -> <<NoNumber, NoNumber>>

ParseFECBin(key) ==
    LET values == RawValues(response.bins[key])
    IN  [bin |-> ParseNonnegativeInt(key), range |-> ParseFECRange(values[1]),
         occurrences |-> ParseUint(Trim[values[2]])]

IsFECBin(key) ==
    /\ ParseNonnegativeInt(key) # NoNumber
    /\ Len(RawValues(response.bins[key])) = 2
    /\ ParseFECBin(key).range[1] # NoNumber
    /\ ParseFECBin(key).occurrences # NoNumber

ConsecutiveFECBins(binsByNumber) ==
    DOMAIN binsByNumber = 0..(Cardinality(DOMAIN binsByNumber) - 1)

FECSamples ==
    IF ConsecutiveFECBins(bins)
    THEN {Sample(bin, bin, bins[bin].range, bins[bin].occurrences, 1) : bin \in DOMAIN bins}
    ELSE {}

-----------------------------------------------------------------------------
(* The SerDes transmitter.                                                 *)

Parameters == RawValues(response.serdesHeader)
Parameter(i) == Trim[Parameters[i]]

SerDesHeader ==
    /\ Len(Parameters) > 0
    /\ \A i, j \in DOMAIN Parameters : Parameter(i) = Parameter(j) => i = j

IsSerDesLane(key) ==
    /\ ParseNonnegativeInt(key) # NoNumber
    /\ Len(RawValues(response.lanes[key])) = Len(Parameters)

\* The parameters that are known; others are skipped unparsed.
Known(parameters) == {i \in DOMAIN Parameters : Parameter(i) \in parameters}

\* The lanes that can be read in every known parameter.
SerDesKnownValues ==
    {lane \in DOMAIN lanes :
        \A i \in Known(FIRTaps \cup {"drv_amp"}) : ParseFiniteFloat(lanes[lane][i]) # Invalid}

\* The parameter stands for the tap it names.
SerDesSamples(parameters) ==
    {Sample(at[2], at[1], <<Parameter(at[2])>>, ParseFiniteFloat(lanes[at[1]][at[2]]), 1) :
        at \in SerDesKnownValues \X Known(parameters)}

-----------------------------------------------------------------------------
(* What is decoded in the end.                                             *)

EmptyData == [labels |-> [label \in Labels |-> ""], series |-> [family \in Families |-> {}]]

DecodedSeries(family) ==
    CASE family \in Measured -> Scalar(ParseFloatSafe(StringField(family)), Divisor(family))
      [] family \in Flags -> Scalar(ParseFlag(StringField(family)), 1)
      [] family \in ListedLanes -> LaneValues(ValuesField(family), 1)
      [] family \in CommaLanes -> CommaLaneValues(StringField(family), Divisor(family))
      [] family \in FlagLanes -> LaneFlags(ValuesField(family))
      [] family \in StateLanes -> LaneStates(ValuesField(family))
      [] family = "fec_histogram" -> FECSamples
      [] family = "fir" -> SerDesSamples(FIRTaps)
      [] family = "drv_amp" -> SerDesSamples({"drv_amp"})
      [] family \in FOMs \cup Grades -> DecodeEyeLaneValues(response.eye, FOMs \cup Grades, family)

DecodedData == [labels |-> [label \in Labels |-> StringField(label)],
                series |-> [family \in Families |-> DecodedSeries(family)]]

DecodedPCIeEye ==
    [EmptyData EXCEPT !.series =
        [family \in Families |->
            IF family \in FOMs THEN DecodeEyeLaneValues(response.eye, FOMs, family) ELSE {}]]

-----------------------------------------------------------------------------

Init ==
    /\ response \in Responses
    /\ pc = "output" /\ left = {} /\ bins = <<>> /\ lanes = <<>>
    /\ error = "none" /\ data = EmptyData

\* The status is judged before the shape of the payload.
OutputError ==
    CASE ~response.json -> "json"
      [] response.json /\ response.status # 0 -> "status"
      [] response.json /\ response.status = 0 /\ response.output = "misshapen" -> "json"
      [] response.json /\ response.status = 0 /\ response.output = "missing" -> "no output"
      [] OTHER -> "none"

DecodeFails ==
    /\ pc = "output" /\ OutputError # "none"
    /\ pc' = "done" /\ error' = OutputError
    /\ UNCHANGED <<response, left, bins, lanes, data>>

DecodePCIeEye ==
    /\ pc = "output" /\ OutputError = "none" /\ response.call = "DecodePCIeEye"
    /\ pc' = "done" /\ data' = DecodedPCIeEye
    /\ UNCHANGED <<response, left, bins, lanes, error>>

BeginFECBins ==
    /\ pc = "output" /\ OutputError = "none" /\ response.call = "Decode"
    /\ pc' = "bins" /\ left' = IF HasFECHeader THEN DOMAIN response.bins ELSE {}
    /\ UNCHANGED <<response, bins, lanes, error, data>>

\* Faulty: a bin that is there already is overwritten (DecodedInAnyOrder).
FECBinOverwritten ==
    /\ pc = "bins"
    /\ \E key \in left :
         IF IsFECBin(key)
         THEN /\ left' = left \ {key}
              /\ bins' = [bin \in DOMAIN bins \cup {ParseFECBin(key).bin} |->
                            IF bin = ParseFECBin(key).bin THEN ParseFECBin(key) ELSE bins[bin]]
         ELSE left' = {} /\ bins' = <<>>
    /\ UNCHANGED <<response, pc, lanes, error, data>>

\* One bin that cannot be read, or is there twice, voids the histogram.
FECBin ==
    /\ pc = "bins"
    /\ \E key \in left :
         IF IsFECBin(key) /\ ParseFECBin(key).bin \notin DOMAIN bins
         THEN /\ left' = left \ {key}
              /\ bins' = [bin \in DOMAIN bins \cup {ParseFECBin(key).bin} |->
                            IF bin \in DOMAIN bins THEN bins[bin] ELSE ParseFECBin(key)]
         ELSE left' = {} /\ bins' = <<>>
    /\ UNCHANGED <<response, pc, lanes, error, data>>

BeginSerDesLanes ==
    /\ pc = "bins" /\ left = {}
    /\ pc' = "lanes" /\ left' = IF SerDesHeader THEN DOMAIN response.lanes ELSE {}
    /\ UNCHANGED <<response, bins, lanes, error, data>>

SerDesLane ==
    /\ pc = "lanes"
    /\ \E key \in left :
         IF IsSerDesLane(key) /\ ParseNonnegativeInt(key) \notin DOMAIN lanes
         THEN /\ left' = left \ {key}
              /\ lanes' = [lane \in DOMAIN lanes \cup {ParseNonnegativeInt(key)} |->
                            IF lane \in DOMAIN lanes THEN lanes[lane]
                            ELSE RawValues(response.lanes[key])]
         ELSE left' = {} /\ lanes' = <<>>
    /\ UNCHANGED <<response, pc, bins, error, data>>

DecodeReturns ==
    /\ pc = "lanes" /\ left = {}
    /\ pc' = "done" /\ data' = DecodedData
    /\ UNCHANGED <<response, left, bins, lanes, error>>

Done == pc = "done" /\ UNCHANGED vars

Next ==
    \/ DecodeFails \/ DecodePCIeEye \/ BeginFECBins \/ FECBin
    \/ BeginSerDesLanes \/ SerDesLane \/ DecodeReturns \/ Done

Spec == Init /\ [][Next]_vars

-----------------------------------------------------------------------------
(* Properties.                                                             *)

Decoded(call) == pc = "done" /\ error = "none" /\ response.call = call

\* Type correctness of what is decoded: a lane or a bin is never a wrapped
\* number, a sample never one that could not be read (model.go; decoder.go:531).
TypeOK ==
    /\ pc \in {"output", "bins", "lanes", "done"}
    /\ error \in {"none", "json", "status", "no output"}
    /\ left \subseteq Texts
    /\ DOMAIN bins \subseteq 0..MaxInt /\ DOMAIN lanes \subseteq 0..MaxInt
    /\ \A label \in Labels : data.labels[label] \in Texts
    /\ \A family \in Families : \A sample \in data.series[family] :
         sample.lane \in Nat /\ sample.number \in Int

FECInAnyOrder ==
    LET keys == DOMAIN response.bins
        Number(key) == ParseNonnegativeInt(key)
    IN  IF /\ HasFECHeader
           /\ \A key \in keys : IsFECBin(key)
           /\ \A k, l \in keys : Number(k) = Number(l) => k = l
           /\ {Number(key) : key \in keys} = 0..(Cardinality({Number(key) : key \in keys}) - 1)
        THEN {Sample(Number(key), Number(key), ParseFECBin(key).range,
                     ParseFECBin(key).occurrences, 1) : key \in keys}
        ELSE {}

SerDesInAnyOrder(parameters) ==
    LET keys == DOMAIN response.lanes
        Number(key) == ParseNonnegativeInt(key)
        Value(key, i) == ParseFiniteFloat(RawValues(response.lanes[key])[i])
        readable == {key \in keys : \A i \in Known(FIRTaps \cup {"drv_amp"}) :
                                        Value(key, i) # Invalid}
    IN  IF /\ SerDesHeader
           /\ \A key \in keys : IsSerDesLane(key)
           /\ \A k, l \in keys : Number(k) = Number(l) => k = l
        THEN {Sample(at[2], Number(at[1]), <<Parameter(at[2])>>, Value(at[1], at[2]), 1) :
                at \in readable \X Known(parameters)}
        ELSE {}

\* Go ranges over a map in any order, and both loops return early: what comes
\* of the bins and the lanes is the same in every order, as these definitions,
\* which visit all keys at once, say (decoder.go:326-351, 478-498).
DecodedInAnyOrder ==
    Decoded("Decode") =>
        /\ data.series["fec_histogram"] = FECInAnyOrder
        /\ data.series["fir"] = SerDesInAnyOrder(FIRTaps)
        /\ data.series["drv_amp"] = SerDesInAnyOrder({"drv_amp"})

Lanes(family) == {sample.lane : sample \in data.series[family]}

\* The families of an Eye never disagree on which lanes there are, whatever is
\* unreadable in them (decoder.go:302-303; the same for both calls).
EyeLanesAgree ==
    /\ \A f, g \in FOMs : Lanes(f) = Lanes(g)
    /\ Decoded("Decode") => \A f, g \in FOMs \cup Grades : Lanes(f) = Lanes(g)

Printed(family) ==
    IF family \notin CommaLanes THEN ValuesField(family)
    ELSE IF TrimRangeSuffix(StringField(family)) = "" THEN <<>>
    ELSE Commas[TrimRangeSuffix(StringField(family))]

Unreadable(family, i) ==
    CASE family \in ListedLanes \cup CommaLanes -> ParseFloatSafe(Printed(family)[i]) = Invalid
      [] family \in FlagLanes ->
            \E j \in DOMAIN Printed(family) : ParseFlag(Printed(family)[j]) = Invalid
      [] family \in StateLanes ->
            \E j \in DOMAIN Printed(family) : ParseState(Printed(family)[j]) = Invalid

\* Where the lanes have no numbers, families printed with as many lanes line up:
\* a lane one of them has is a lane of the other, unless that one could not be
\* read. A family of flags or states has every lane printed, or none: it never
\* shows its neighbours a part of them (decoder.go:678-692, 710-751).
LanesLineUp ==
    Decoded("Decode") =>
        /\ \A f, g \in PositionalLanes : Len(Printed(f)) = Len(Printed(g)) =>
             \A lane \in Lanes(f) : lane \in Lanes(g) \/ Unreadable(g, lane + 1)
        /\ \A f \in FlagLanes \cup StateLanes : Lanes(f) # {} =>
             Lanes(f) = {i - 1 : i \in DOMAIN Printed(f)}
=============================================================================
