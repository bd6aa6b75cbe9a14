--------------------------- MODULE DecoderProofs ----------------------------
(***************************************************************************)
(* Proofs about the decoder, for any response over any set of texts, and   *)
(* about the series the collectors make of it.                             *)
(***************************************************************************)
EXTENDS Export, TLAPS

-----------------------------------------------------------------------------
(* The loops over the bins and the lanes. Whatever has been visited is in  *)
(* the map and nothing else is; or the map is empty, for a good reason.    *)

Number(key) == ParseNonnegativeInt(key)

BinKeys == IF HasFECHeader THEN DOMAIN response.bins ELSE {}

BinsVisited(seen) ==
    /\ \A key \in seen : /\ IsFECBin(key)
                         /\ Number(key) \in DOMAIN bins /\ bins[Number(key)] = ParseFECBin(key)
    /\ \A k, l \in seen : Number(k) = Number(l) => k = l
    /\ \A bin \in DOMAIN bins : \E key \in seen : bin = Number(key)

BinsVoid ==
    /\ bins = <<>>
    /\ \/ \E key \in BinKeys : ~IsFECBin(key)
       \/ \E k, l \in BinKeys : Number(k) = Number(l) /\ k # l

BinsInv ==
    /\ pc = "output" => bins = <<>>
    /\ pc = "bins" => /\ left \subseteq BinKeys
                      /\ BinsVisited(BinKeys \ left) \/ (left = {} /\ BinsVoid)
    /\ pc = "lanes" \/ Decoded("Decode") => BinsVisited(BinKeys) \/ BinsVoid

LaneKeys == IF SerDesHeader THEN DOMAIN response.lanes ELSE {}

LanesVisited(seen) ==
    /\ \A key \in seen : /\ IsSerDesLane(key) /\ Number(key) \in DOMAIN lanes
                         /\ lanes[Number(key)] = RawValues(response.lanes[key])
    /\ \A k, l \in seen : Number(k) = Number(l) => k = l
    /\ \A lane \in DOMAIN lanes : \E key \in seen : lane = Number(key)

LanesVoid ==
    /\ lanes = <<>>
    /\ \/ \E key \in LaneKeys : ~IsSerDesLane(key)
       \/ \E k, l \in LaneKeys : Number(k) = Number(l) /\ k # l

LanesInv ==
    /\ pc \in {"output", "bins"} => lanes = <<>>
    /\ pc = "lanes" => /\ left \subseteq LaneKeys
                       /\ LanesVisited(LaneKeys \ left) \/ (left = {} /\ LanesVoid)
    /\ Decoded("Decode") => LanesVisited(LaneKeys) \/ LanesVoid

Outcome ==
    /\ pc \in {"output", "bins", "lanes", "done"} /\ response \in Responses
    /\ error \in {"none", "json", "status", "no output"} /\ (pc # "done" => error = "none")
    /\ pc \in {"bins", "lanes"} => response.call = "Decode"
    /\ pc # "done" \/ error # "none" => data = EmptyData
    /\ Decoded("Decode") => data = DecodedData
    /\ Decoded("DecodePCIeEye") => data = DecodedPCIeEye

Inv == Outcome /\ BinsInv /\ LanesInv

LEMMA NoNumbers == DOMAIN <<>> = {}
  OBVIOUS

\* What is said of the response alone is said of it in the next state too.
LEMMA ResponseStays ==
  ASSUME response' = response
  PROVE  /\ BinKeys' = BinKeys /\ LaneKeys' = LaneKeys
         /\ \A key : IsFECBin(key)' <=> IsFECBin(key)
         /\ \A key : ParseFECBin(key)' = ParseFECBin(key)
         /\ \A key : IsSerDesLane(key)' <=> IsSerDesLane(key)
<1>1. HasFECHeader' <=> HasFECHeader
  BY DEF HasFECHeader, RawValues
<1>2. Parameters' = Parameters
  BY DEF Parameters, RawValues
<1>3. \A i : Parameter(i)' = Parameter(i)
  BY <1>2 DEF Parameter
<1>4. SerDesHeader' <=> SerDesHeader
  BY <1>2, <1>3 DEF SerDesHeader
<1>5. \A key : ParseFECBin(key)' = ParseFECBin(key)
  BY DEF ParseFECBin
<1>6. \A key : IsFECBin(key)' <=> IsFECBin(key)
  BY <1>5 DEF IsFECBin
<1>7. \A key : IsSerDesLane(key)' <=> IsSerDesLane(key)
  BY <1>2 DEF IsSerDesLane
<1> QED
  BY <1>1, <1>4, <1>5, <1>6, <1>7 DEF BinKeys, LaneKeys

LEMMA BinsStay ==
  ASSUME UNCHANGED <<response, bins>>
  PROVE  /\ BinsVoid' <=> BinsVoid
         /\ BinsVisited(BinKeys)' <=> BinsVisited(BinKeys)
  BY ResponseStays DEF BinsVoid, BinsVisited

LEMMA LanesStay ==
  ASSUME UNCHANGED <<response, lanes>>
  PROVE  /\ LanesVoid' <=> LanesVoid
         /\ LanesVisited(LaneKeys)' <=> LanesVisited(LaneKeys)
  BY ResponseStays DEF LanesVoid, LanesVisited

LEMMA BinsStep == BinsInv /\ [Next]_vars => BinsInv'
<1> SUFFICES ASSUME BinsInv, [Next]_vars PROVE BinsInv'
  OBVIOUS
<1>r. response' = response
  BY DEF Next, DecodeFails, DecodePCIeEye, BeginFECBins, FECBin, BeginSerDesLanes, SerDesLane,
       DecodeReturns, Done, vars
<1>1. CASE DecodeFails \/ DecodePCIeEye
  BY <1>1, <1>r DEF DecodeFails, DecodePCIeEye, BinsInv, Decoded
<1>2. CASE BeginFECBins
  <2>1. pc' = "bins" /\ left' = BinKeys' /\ bins' = <<>>
    BY <1>2, <1>r, ResponseStays DEF BeginFECBins, BinKeys, BinsInv
  <2>2. BinsVisited(BinKeys \ left)'
    BY <2>1, NoNumbers DEF BinsVisited
  <2> QED
    BY <2>1, <2>2 DEF BinsInv, Decoded
<1>3. CASE FECBin
  <2>1. PICK key \in left :
          IF IsFECBin(key) /\ ParseFECBin(key).bin \notin DOMAIN bins
          THEN /\ left' = left \ {key}
               /\ bins' = [bin \in DOMAIN bins \cup {ParseFECBin(key).bin} |->
                            IF bin \in DOMAIN bins THEN bins[bin] ELSE ParseFECBin(key)]
          ELSE left' = {} /\ bins' = <<>>
    BY <1>3 DEF FECBin
  <2>2. pc = "bins" /\ pc' = "bins"
    BY <1>3 DEF FECBin
  <2>3. ParseFECBin(key).bin = Number(key)
    BY DEF ParseFECBin, Number
  <2>4. left \subseteq BinKeys
    BY <2>2 DEF BinsInv
  <2>5. BinsVisited(BinKeys \ left)
    BY <2>1, <2>2 DEF BinsInv
  <2>6. CASE IsFECBin(key) /\ Number(key) \notin DOMAIN bins
    <3>1. BinKeys \ left' = (BinKeys \ left) \cup {key}
      BY <2>1, <2>3, <2>4, <2>6
    <3>2. BinsVisited(BinKeys \ left)'
      <4>1. bins' = [bin \in DOMAIN bins \cup {Number(key)} |->
                       IF bin \in DOMAIN bins THEN bins[bin] ELSE ParseFECBin(key)]
        BY <2>1, <2>3, <2>6
      <4>2. /\ \A k \in (BinKeys \ left) \cup {key} :
                 IsFECBin(k) /\ Number(k) \in DOMAIN bins' /\ bins'[Number(k)] = ParseFECBin(k)
            /\ \A k, l \in (BinKeys \ left) \cup {key} : Number(k) = Number(l) => k = l
            /\ \A bin \in DOMAIN bins' : \E k \in (BinKeys \ left) \cup {key} : bin = Number(k)
        BY <2>5, <2>6, <4>1 DEF BinsVisited
      <4> QED
        BY <3>1, <4>2, <1>r, ResponseStays DEF BinsVisited, Number
    <3> QED
      BY <2>1, <2>2, <2>3, <2>4, <2>6, <3>2, <1>r, ResponseStays DEF BinsInv, Decoded
  <2>7. CASE ~(IsFECBin(key) /\ Number(key) \notin DOMAIN bins)
    <3>1. left' = {} /\ bins' = <<>>
      BY <2>1, <2>3, <2>7
    <3>2. \/ ~IsFECBin(key)
          \/ \E k \in BinKeys \ left : Number(k) = Number(key)
      BY <2>5, <2>7 DEF BinsVisited
    <3>3. BinsVoid'
      BY <3>1, <3>2, <2>4, <1>r, ResponseStays DEF BinsVoid, Number
    <3> QED
      BY <2>2, <3>1, <3>3 DEF BinsInv, Decoded
  <2> QED
    BY <2>6, <2>7
<1>4. CASE BeginSerDesLanes
  <2>1. BinsVisited(BinKeys) \/ BinsVoid
    <3>1. BinKeys \ left = BinKeys
      BY <1>4 DEF BeginSerDesLanes
    <3> QED
      BY <1>4, <3>1 DEF BeginSerDesLanes, BinsInv
  <2>2. pc' = "lanes" /\ UNCHANGED <<response, bins>>
    BY <1>4 DEF BeginSerDesLanes
  <2> QED
    BY <2>1, <2>2, BinsStay DEF BinsInv, Decoded
<1>5. CASE SerDesLane \/ DecodeReturns
  <2>1. pc = "lanes" /\ pc' \in {"lanes", "done"} /\ UNCHANGED <<response, bins>>
    BY <1>5 DEF SerDesLane, DecodeReturns
  <2> QED
    BY <2>1, BinsStay DEF BinsInv, Decoded
<1>6. CASE UNCHANGED vars
  <2>1. UNCHANGED <<response, bins>> /\ pc' = pc /\ left' = left /\ error' = error
    BY <1>6 DEF vars
  <2>2. BinsVisited(BinKeys \ left)' <=> BinsVisited(BinKeys \ left)
    BY <2>1, ResponseStays DEF BinsVisited
  <2> QED
    BY <2>1, <2>2, BinsStay, ResponseStays DEF BinsInv, Decoded
<1> QED
  BY <1>1, <1>2, <1>3, <1>4, <1>5, <1>6 DEF Next, Done

LEMMA LanesStep == LanesInv /\ [Next]_vars => LanesInv'
<1> SUFFICES ASSUME LanesInv, [Next]_vars PROVE LanesInv'
  OBVIOUS
<1>r. response' = response
  BY DEF Next, DecodeFails, DecodePCIeEye, BeginFECBins, FECBin, BeginSerDesLanes, SerDesLane,
       DecodeReturns, Done, vars
<1>1. CASE DecodeFails \/ DecodePCIeEye
  BY <1>1, <1>r DEF DecodeFails, DecodePCIeEye, LanesInv, Decoded
<1>2. CASE BeginFECBins \/ FECBin
  BY <1>2 DEF BeginFECBins, FECBin, LanesInv, Decoded
<1>3. CASE BeginSerDesLanes
  <2>1. pc' = "lanes" /\ left' = LaneKeys' /\ lanes' = <<>>
    BY <1>3, <1>r, ResponseStays DEF BeginSerDesLanes, LaneKeys, LanesInv
  <2>2. LanesVisited(LaneKeys \ left)'
    BY <2>1, NoNumbers DEF LanesVisited
  <2> QED
    BY <2>1, <2>2 DEF LanesInv, Decoded
<1>4. CASE SerDesLane
  <2>1. PICK key \in left :
          IF IsSerDesLane(key) /\ ParseNonnegativeInt(key) \notin DOMAIN lanes
          THEN /\ left' = left \ {key}
               /\ lanes' = [lane \in DOMAIN lanes \cup {ParseNonnegativeInt(key)} |->
                             IF lane \in DOMAIN lanes THEN lanes[lane]
                             ELSE RawValues(response.lanes[key])]
          ELSE left' = {} /\ lanes' = <<>>
    BY <1>4 DEF SerDesLane
  <2>2. pc = "lanes" /\ pc' = "lanes"
    BY <1>4 DEF SerDesLane
  <2>4. left \subseteq LaneKeys
    BY <2>2 DEF LanesInv
  <2>5. LanesVisited(LaneKeys \ left)
    BY <2>1, <2>2 DEF LanesInv
  <2>6. CASE IsSerDesLane(key) /\ Number(key) \notin DOMAIN lanes
    <3>1. LaneKeys \ left' = (LaneKeys \ left) \cup {key}
      BY <2>1, <2>4, <2>6 DEF Number
    <3>2. LanesVisited(LaneKeys \ left)'
      <4>1. lanes' = [lane \in DOMAIN lanes \cup {Number(key)} |->
                        IF lane \in DOMAIN lanes THEN lanes[lane]
                        ELSE RawValues(response.lanes[key])]
        BY <2>1, <2>6 DEF Number
      <4>2. /\ \A k \in (LaneKeys \ left) \cup {key} :
                 /\ IsSerDesLane(k) /\ Number(k) \in DOMAIN lanes'
                 /\ lanes'[Number(k)] = RawValues(response.lanes[k])
            /\ \A k, l \in (LaneKeys \ left) \cup {key} : Number(k) = Number(l) => k = l
            /\ \A lane \in DOMAIN lanes' : \E k \in (LaneKeys \ left) \cup {key} : lane = Number(k)
        BY <2>5, <2>6, <4>1 DEF LanesVisited
      <4> QED
        BY <3>1, <4>2, <1>r, ResponseStays DEF LanesVisited, Number, RawValues
    <3> QED
      BY <2>1, <2>2, <2>4, <2>6, <3>2, <1>r, ResponseStays DEF LanesInv, Decoded, Number
  <2>7. CASE ~(IsSerDesLane(key) /\ Number(key) \notin DOMAIN lanes)
    <3>1. left' = {} /\ lanes' = <<>>
      BY <2>1, <2>7 DEF Number
    <3>2. \/ ~IsSerDesLane(key)
          \/ \E k \in LaneKeys \ left : Number(k) = Number(key)
      BY <2>5, <2>7 DEF LanesVisited
    <3>3. LanesVoid'
      BY <3>1, <3>2, <2>4, <1>r, ResponseStays DEF LanesVoid, Number
    <3> QED
      BY <2>2, <3>1, <3>3 DEF LanesInv, Decoded
  <2> QED
    BY <2>6, <2>7
<1>5. CASE DecodeReturns
  <2>1. LanesVisited(LaneKeys) \/ LanesVoid
    <3>1. LaneKeys \ left = LaneKeys
      BY <1>5 DEF DecodeReturns
    <3> QED
      BY <1>5, <3>1 DEF DecodeReturns, LanesInv
  <2>2. pc' = "done" /\ UNCHANGED <<response, lanes>>
    BY <1>5 DEF DecodeReturns
  <2> QED
    BY <2>1, <2>2, LanesStay DEF LanesInv, Decoded
<1>6. CASE UNCHANGED vars
  <2>1. UNCHANGED <<response, lanes>> /\ pc' = pc /\ left' = left /\ error' = error
    BY <1>6 DEF vars
  <2>2. LanesVisited(LaneKeys \ left)' <=> LanesVisited(LaneKeys \ left)
    BY <2>1, ResponseStays DEF LanesVisited
  <2> QED
    BY <2>1, <2>2, LanesStay, ResponseStays DEF LanesInv, Decoded
<1> QED
  BY <1>1, <1>2, <1>3, <1>4, <1>5, <1>6 DEF Next, Done

-----------------------------------------------------------------------------
(* What has been decoded in the end.                                       *)

LEMMA SeriesOf ==
  ASSUME Decoded("Decode"), data = DecodedData
  PROVE  /\ \A f \in Measured :
              data.series[f] = Scalar(ParseFloatSafe(StringField(f)), Divisor(f))
         /\ \A f \in Flags : data.series[f] = Scalar(ParseFlag(StringField(f)), 1)
         /\ \A f \in ListedLanes : data.series[f] = LaneValues(ValuesField(f), 1)
         /\ \A f \in CommaLanes :
              data.series[f] = CommaLaneValues(StringField(f), Divisor(f))
         /\ \A f \in FlagLanes : data.series[f] = LaneFlags(ValuesField(f))
         /\ \A f \in StateLanes : data.series[f] = LaneStates(ValuesField(f))
         /\ data.series["fec_histogram"] = FECSamples
         /\ data.series["fir"] = SerDesSamples(FIRTaps)
         /\ data.series["drv_amp"] = SerDesSamples({"drv_amp"})
         /\ \A f \in FOMs \cup Grades :
              data.series[f] = DecodeEyeLaneValues(response.eye, FOMs \cup Grades, f)
<1>1. \A f \in Families : data.series[f] = DecodedSeries(f)
  BY DEF DecodedData
<1>2. /\ Measured \cup Flags \cup PositionalLanes \subseteq Families
      /\ FOMs \cup Grades \cup {"fec_histogram", "fir", "drv_amp"} \subseteq Families
  BY DEF Families
<1> USE DEF Measured, Flags, ListedLanes, CommaLanes, FlagLanes, StateLanes, PositionalLanes,
            FOMs, Grades
<1>3. \A f \in Measured : DecodedSeries(f) = Scalar(ParseFloatSafe(StringField(f)), Divisor(f))
  BY DEF DecodedSeries
<1>4. \A f \in Flags : DecodedSeries(f) = Scalar(ParseFlag(StringField(f)), 1)
  BY DEF DecodedSeries
<1>5. \A f \in ListedLanes : DecodedSeries(f) = LaneValues(ValuesField(f), 1)
  BY DEF DecodedSeries
<1>6. \A f \in CommaLanes : DecodedSeries(f) = CommaLaneValues(StringField(f), Divisor(f))
  BY DEF DecodedSeries
<1>7. \A f \in FlagLanes : DecodedSeries(f) = LaneFlags(ValuesField(f))
  BY DEF DecodedSeries
<1>8. \A f \in StateLanes : DecodedSeries(f) = LaneStates(ValuesField(f))
  BY DEF DecodedSeries
<1>9. /\ DecodedSeries("fec_histogram") = FECSamples
      /\ DecodedSeries("fir") = SerDesSamples(FIRTaps)
      /\ DecodedSeries("drv_amp") = SerDesSamples({"drv_amp"})
  BY DEF DecodedSeries
<1>10. \A f \in FOMs \cup Grades :
         DecodedSeries(f) = DecodeEyeLaneValues(response.eye, FOMs \cup Grades, f)
  BY DEF DecodedSeries
<1> QED
  BY <1>1, <1>2, <1>3, <1>4, <1>5, <1>6, <1>7, <1>8, <1>9, <1>10

LEMMA PCIeSeriesOf ==
  ASSUME data = DecodedPCIeEye
  PROVE  /\ \A f \in FOMs : data.series[f] = DecodeEyeLaneValues(response.eye, FOMs, f)
         /\ \A f \in Families \ FOMs : data.series[f] = {}
<1>1. data.series = [family \in Families |->
          IF family \in FOMs THEN DecodeEyeLaneValues(response.eye, FOMs, family) ELSE {}]
  BY DEF DecodedPCIeEye, EmptyData
<1> QED
  BY <1>1 DEF Families

LEMMA EmptySeries == \A f \in Families : EmptyData.series[f] = {}
  BY DEF EmptyData

LEMMA DataStay ==
  ASSUME UNCHANGED <<response, bins, lanes>>
  PROVE  DecodedData' = DecodedData /\ DecodedPCIeEye' = DecodedPCIeEye
<1>1. \A field : StringField(field)' = StringField(field) /\ ValuesField(field)' = ValuesField(field)
  BY DEF StringField, ValuesField, RawValues
<1>2. FECSamples' = FECSamples
  <2>1. ConsecutiveFECBins(bins)' <=> ConsecutiveFECBins(bins)
    BY DEF ConsecutiveFECBins
  <2> QED
    BY <2>1 DEF FECSamples
<1>3. \A p : SerDesSamples(p)' = SerDesSamples(p)
  <2>1. \A i : Parameter(i)' = Parameter(i)
    BY DEF Parameter, Parameters, RawValues
  <2>2. \A p : Known(p)' = Known(p)
    BY <2>1 DEF Known, Parameters, RawValues
  <2>3. SerDesKnownValues' = SerDesKnownValues
    BY <2>2 DEF SerDesKnownValues
  <2> QED
    BY <2>1, <2>2, <2>3 DEF SerDesSamples
<1>4. \A f \in Families : DecodedSeries(f)' = DecodedSeries(f)
  BY <1>1, <1>2, <1>3 DEF DecodedSeries
<1>5. DecodedData' = DecodedData
  BY <1>1, <1>4 DEF DecodedData
<1> QED
  BY <1>5 DEF DecodedPCIeEye

LEMMA OutcomeStep == Outcome /\ [Next]_vars => Outcome'
<1> SUFFICES ASSUME Outcome, [Next]_vars PROVE Outcome'
  OBVIOUS
<1>1. CASE DecodeFails
  <2>1. error' \in {"json", "status", "no output"}
    BY <1>1 DEF DecodeFails, OutputError
  <2> QED
    BY <1>1, <2>1 DEF DecodeFails, Outcome, Decoded
<1>2. CASE DecodePCIeEye
  <2>1. /\ pc = "output" /\ pc' = "done" /\ error' = error
        /\ response' = response /\ response.call = "DecodePCIeEye"
    BY <1>2 DEF DecodePCIeEye
  <2>2. data' = DecodedPCIeEye /\ UNCHANGED <<response, bins, lanes>>
    BY <1>2 DEF DecodePCIeEye
  <2>3. data' = DecodedPCIeEye'
    BY <2>2, DataStay
  <2> QED
    BY <2>1, <2>3 DEF Outcome, Decoded
<1>3. CASE BeginFECBins \/ FECBin \/ BeginSerDesLanes \/ SerDesLane
  <2>1. UNCHANGED <<response, error, data>> /\ pc # "done" /\ pc' \in {"bins", "lanes"}
    BY <1>3 DEF BeginFECBins, FECBin, BeginSerDesLanes, SerDesLane
  <2>2. response.call = "Decode"
    BY <1>3 DEF BeginFECBins, FECBin, BeginSerDesLanes, SerDesLane, Outcome
  <2> QED
    BY <2>1, <2>2 DEF Outcome, Decoded
<1>4. CASE DecodeReturns
  <2>1. /\ pc = "lanes" /\ pc' = "done" /\ error' = error
        /\ response' = response /\ response.call = "Decode"
    BY <1>4 DEF DecodeReturns, Outcome
  <2>2. data' = DecodedData /\ UNCHANGED <<response, bins, lanes>>
    BY <1>4 DEF DecodeReturns
  <2>3. data' = DecodedData'
    BY <2>2, DataStay
  <2> QED
    BY <2>1, <2>3 DEF Outcome, Decoded
<1>5. CASE UNCHANGED vars
  BY <1>5, DataStay DEF vars, Outcome, Decoded
<1> QED
  BY <1>1, <1>2, <1>3, <1>4, <1>5 DEF Next, Done

LEMMA InitInv == Init => Inv
  BY DEF Init, Inv, Outcome, BinsInv, LanesInv, Decoded

\* What the loops have built so far is what they visited, or nothing once a key
\* was void, and what is returned is what the finished maps give (decoder.go:
\* 326-351, 478-498).
THEOREM InvHolds == Spec => []Inv
<1>1. Inv /\ [Next]_vars => Inv'
  BY OutcomeStep, BinsStep, LanesStep DEF Inv
<1> QED
  BY InitInv, <1>1, PTL DEF Spec

-----------------------------------------------------------------------------
(* The order of a map does not matter.                                     *)

LEMMA FECIsInAnyOrder ==
  ASSUME BinsVisited(BinKeys) \/ BinsVoid
  PROVE  FECSamples = FECInAnyOrder
<1> DEFINE numbers == {Number(key) : key \in DOMAIN response.bins}
           Good == /\ HasFECHeader
                   /\ \A key \in DOMAIN response.bins : IsFECBin(key)
                   /\ \A k, l \in DOMAIN response.bins : Number(k) = Number(l) => k = l
                   /\ numbers = 0..(Cardinality(numbers) - 1)
           Found == {Sample(Number(key), Number(key), ParseFECBin(key).range,
                            ParseFECBin(key).occurrences, 1) : key \in DOMAIN response.bins}
<1>1. FECInAnyOrder = IF Good THEN Found ELSE {}
  BY DEF FECInAnyOrder, Number
<1>2. CASE ~HasFECHeader
  <2>1. DOMAIN bins = {}
    BY <1>2, NoNumbers DEF BinKeys, BinsVisited, BinsVoid
  <2>2. FECSamples = {}
    BY <2>1 DEF FECSamples
  <2> QED
    BY <1>1, <1>2, <2>2
<1>3. CASE HasFECHeader /\ BinsVoid
  <2>1. FECSamples = {}
    BY <1>3, NoNumbers DEF FECSamples, BinsVoid
  <2>2. ~Good
    BY <1>3 DEF BinsVoid, BinKeys
  <2> QED
    BY <1>1, <2>1, <2>2
<1>4. CASE HasFECHeader /\ BinsVisited(BinKeys)
  <2>1. BinsVisited(DOMAIN response.bins)
    BY <1>4 DEF BinKeys
  <2>2. DOMAIN bins = numbers
    BY <2>1 DEF BinsVisited
  <2>3. ConsecutiveFECBins(bins) <=> Good
    BY <1>4, <2>1, <2>2 DEF BinsVisited, ConsecutiveFECBins
  <2>4. {Sample(bin, bin, bins[bin].range, bins[bin].occurrences, 1) : bin \in DOMAIN bins} = Found
    BY <2>1, <2>2 DEF BinsVisited
  <2> QED
    BY <1>1, <2>3, <2>4 DEF FECSamples
<1> QED
  BY <1>2, <1>3, <1>4

LEMMA SerDesIsInAnyOrder ==
  ASSUME LanesVisited(LaneKeys) \/ LanesVoid, NEW parameters
  PROVE  SerDesSamples(parameters) = SerDesInAnyOrder(parameters)
<1> DEFINE Value(key, i) == ParseFiniteFloat(RawValues(response.lanes[key])[i])
           known == Known(FIRTaps \cup {"drv_amp"})
           readable == {key \in DOMAIN response.lanes : \A i \in known : Value(key, i) # Invalid}
           Good == /\ SerDesHeader
                   /\ \A key \in DOMAIN response.lanes : IsSerDesLane(key)
                   /\ \A k, l \in DOMAIN response.lanes : Number(k) = Number(l) => k = l
           Found == {Sample(at[2], Number(at[1]), <<Parameter(at[2])>>, Value(at[1], at[2]), 1) :
                       at \in readable \X Known(parameters)}
<1>1. SerDesInAnyOrder(parameters) = IF Good THEN Found ELSE {}
  BY DEF SerDesInAnyOrder, Number
<1>2. CASE DOMAIN lanes = {}
  <2>1. SerDesSamples(parameters) = {}
    BY <1>2 DEF SerDesSamples, SerDesKnownValues
  <2>2. Good => DOMAIN response.lanes = {}
    BY <1>2 DEF LanesVisited, LanesVoid, LaneKeys
  <2>3. Good => Found = {}
    BY <2>2
  <2> QED
    BY <1>1, <2>1, <2>3
<1>3. CASE DOMAIN lanes # {}
  <2>1. LanesVisited(LaneKeys)
    BY <1>3, NoNumbers DEF LanesVoid
  <2>2. SerDesHeader
    BY <1>3, <2>1 DEF LanesVisited, LaneKeys
  <2>3. LanesVisited(DOMAIN response.lanes)
    BY <2>1, <2>2 DEF LaneKeys
  <2>4. Good
    BY <2>2, <2>3 DEF LanesVisited
  <2>5. \A key \in DOMAIN response.lanes : \A i :
          ParseFiniteFloat(lanes[Number(key)][i]) = Value(key, i)
    BY <2>3 DEF LanesVisited
  <2>6. SerDesKnownValues = {Number(key) : key \in readable}
    BY <2>3, <2>5 DEF SerDesKnownValues, LanesVisited
  <2>7. SerDesSamples(parameters) \subseteq Found
    <3> SUFFICES ASSUME NEW at \in SerDesKnownValues \X Known(parameters)
                 PROVE  Sample(at[2], at[1], <<Parameter(at[2])>>,
                               ParseFiniteFloat(lanes[at[1]][at[2]]), 1) \in Found
      BY DEF SerDesSamples
    <3> DEFINE lane == at[1]
               i == at[2]
    <3>0. lane \in SerDesKnownValues /\ i \in Known(parameters)
      OBVIOUS
    <3> HIDE DEF lane, i
    <3>1. PICK key \in readable : lane = Number(key)
      BY <2>6, <3>0
    <3>2. ParseFiniteFloat(lanes[lane][i]) = Value(key, i)
      BY <3>1, <2>5
    <3>3. <<key, i>> \in readable \X Known(parameters)
      BY <3>0
    <3>4. Sample(i, Number(key), <<Parameter(i)>>, Value(key, i), 1) \in Found
      <4>1. <<key, i>>[1] = key /\ <<key, i>>[2] = i
        OBVIOUS
      <4> HIDE DEF Value, readable
      <4> QED
        BY <3>3, <4>1
    <3> QED
      BY <3>1, <3>2, <3>4 DEF lane, i
  <2>8. Found \subseteq SerDesSamples(parameters)
    <3> SUFFICES ASSUME NEW key \in readable, NEW i \in Known(parameters)
                 PROVE  Sample(i, Number(key), <<Parameter(i)>>, Value(key, i), 1)
                          \in SerDesSamples(parameters)
      OBVIOUS
    <3>1. <<Number(key), i>> \in SerDesKnownValues \X Known(parameters)
      BY <2>6
    <3> QED
      BY <3>1, <2>5 DEF SerDesSamples
  <2> QED
    BY <1>1, <2>4, <2>7, <2>8
<1> QED
  BY <1>2, <1>3

\* What is decoded of the FEC bins and of the SerDes lanes does not depend on
\* the order in which Go ranges over the maps (decoder.go:326-351, 478-498).
THEOREM DecodedInAnyOrderHolds == Spec => []DecodedInAnyOrder
<1>1. Inv => DecodedInAnyOrder
  <2> SUFFICES ASSUME Inv, Decoded("Decode")
               PROVE  /\ data.series["fec_histogram"] = FECInAnyOrder
                      /\ data.series["fir"] = SerDesInAnyOrder(FIRTaps)
                      /\ data.series["drv_amp"] = SerDesInAnyOrder({"drv_amp"})
    BY DEF DecodedInAnyOrder
  <2>1. /\ data.series["fec_histogram"] = FECSamples
        /\ data.series["fir"] = SerDesSamples(FIRTaps)
        /\ data.series["drv_amp"] = SerDesSamples({"drv_amp"})
    BY SeriesOf DEF Inv, Outcome
  <2>2. FECSamples = FECInAnyOrder
    BY FECIsInAnyOrder DEF Inv, BinsInv
  <2>3. \A p : SerDesSamples(p) = SerDesInAnyOrder(p)
    BY SerDesIsInAnyOrder DEF Inv, LanesInv
  <2> QED
    BY <2>1, <2>2, <2>3
<1> QED
  BY <1>1, InvHolds, PTL

-----------------------------------------------------------------------------
(* Lanes.                                                                  *)

LEMMA EyeLanes ==
  ASSUME NEW sec, NEW fields, NEW f, NEW g,
         data.series[f] = DecodeEyeLaneValues(sec, fields, f),
         data.series[g] = DecodeEyeLaneValues(sec, fields, g)
  PROVE  Lanes(f) = Lanes(g)
<1> DEFINE rows == RawValues(sec["Lane"])
           Lane(i) == ParseNonnegativeInt(Trim[rows[i]])
           readable(field) == {j \in DOMAIN rows : EyeLaneScores(sec, fields, field, j)}
           Value(field, i) == Sample(i, Lane(i), <<>>, ParseFiniteFloat(RawValues(sec[field])[i]), 1)
           Values(field) == {Value(field, i) : i \in readable(field)}
<1>1. readable(f) = readable(g)
  BY DEF EyeLaneScores
<1>2. \A field, i : Value(field, i).lane = Lane(i)
  BY DEF Sample
<1>3. \A field : {s.lane : s \in Values(field)} = {Lane(i) : i \in readable(field)}
  <2> HIDE DEF Lane, readable, Value
  <2> QED
    BY <1>2
<1>4. \/ data.series[f] = Values(f) /\ data.series[g] = Values(g)
      \/ data.series[f] = {} /\ data.series[g] = {}
  BY DEF DecodeEyeLaneValues
<1>5. CASE data.series[f] = {} /\ data.series[g] = {}
  BY <1>5 DEF Lanes
<1>6. CASE data.series[f] = Values(f) /\ data.series[g] = Values(g)
  <2>1. Lanes(f) = {s.lane : s \in Values(f)} /\ Lanes(g) = {s.lane : s \in Values(g)}
    BY <1>6 DEF Lanes
  <2> HIDE DEF Values, readable, Lane
  <2> QED
    BY <2>1, <1>1, <1>3
<1> QED
  BY <1>4, <1>5, <1>6

\* The families of an Eye have the same lanes (decoder.go:302-303).
THEOREM EyeLanesAgreeHolds == Spec => []EyeLanesAgree
<1>1. Inv => EyeLanesAgree
  <2> SUFFICES ASSUME Inv PROVE EyeLanesAgree
    OBVIOUS
  <2>1. FOMs \cup Grades \subseteq Families
    BY DEF Families
  <2>2. CASE Decoded("Decode")
    <3>1. \A f \in FOMs \cup Grades :
            data.series[f] = DecodeEyeLaneValues(response.eye, FOMs \cup Grades, f)
      BY <2>2, SeriesOf DEF Inv, Outcome
    <3> QED
      BY <2>2, <3>1, EyeLanes DEF EyeLanesAgree
  <2>3. CASE Decoded("DecodePCIeEye")
    <3>1. \A f \in FOMs : data.series[f] = DecodeEyeLaneValues(response.eye, FOMs, f)
      BY <2>3, PCIeSeriesOf DEF Inv, Outcome
    <3>2. ~Decoded("Decode")
      BY <2>3 DEF Decoded
    <3> QED
      BY <3>1, <3>2, EyeLanes DEF EyeLanesAgree
  <2>4. CASE data = EmptyData
    BY <2>1, <2>4, EmptySeries DEF EyeLanesAgree, Lanes
  <2> QED
    <3>1. response.call \in {"Decode", "DecodePCIeEye"}
      BY DecoderAssumption DEF Inv, Outcome, IsResponse
    <3> QED
      BY <3>1, <2>2, <2>3, <2>4 DEF Inv, Outcome, Decoded
<1> QED
  BY <1>1, InvHolds, PTL

-----------------------------------------------------------------------------
(* What the conversions return.                                            *)

LEMMA Assumed ==
    /\ MaxInt \in Nat /\ Invalid \notin Int
    /\ \A text \in Texts : Trim[text] \in Texts
  BY DecoderAssumption

LEMMA Conversions ==
  ASSUME NEW text \in Texts
  PROVE  /\ ParseFiniteFloat(text) \in Int \cup {Invalid}
         /\ TrimRangeSuffix(text) \in Texts
         /\ ParseFloatSafe(text) \in Int \cup {Invalid}
         /\ ParseFlag(text) \in Int \cup {Invalid} /\ ParseState(text) \in Int \cup {Invalid}
         /\ ParseUint(text) \in Nat \cup {NoNumber}
         /\ ParseNonnegativeInt(text) \in 0..MaxInt \cup {NoNumber}
<1>a. /\ Trim[text] \in Texts /\ Invalid \notin Int
      /\ \A t \in Texts : Unranged[t] \in Texts \cup {NoText} /\ Float[t] \in Int \cup {Invalid, NonFinite}
      /\ \A t \in Texts : Trim[t] \in Texts
  BY DecoderAssumption
<1>b. Uint[text] \in Nat \cup {-1} /\ MaxInt \in Nat
  BY DecoderAssumption DEF NoNumber
<1>1. TrimRangeSuffix(text) \in Texts
  BY <1>a DEF TrimRangeSuffix
<1>2. ParseFiniteFloat(text) \in Int \cup {Invalid}
  BY <1>a DEF ParseFiniteFloat, FiniteValue
<1>3. ParseFloatSafe(text) \in Int \cup {Invalid}
  BY <1>1, <1>a DEF ParseFloatSafe, FiniteValue
<1>4. ParseFlag(text) \in {0, 1, Invalid}
  BY DEF ParseFlag
<1>5. ParseState(text) \in {0, 1, Invalid}
  BY DEF ParseState
<1>6. ParseUint(text) \in Nat \cup {NoNumber}
  BY <1>b DEF ParseUint, NoNumber
<1>7. ParseNonnegativeInt(text) \in 0..MaxInt \cup {NoNumber}
  BY <1>b DEF ParseNonnegativeInt, NoNumber
<1> QED
  BY <1>1, <1>2, <1>3, <1>4, <1>5, <1>6, <1>7

LEMMA ListOfTexts == \A raw \in Raw : RawValues(raw) \in Seq(Texts)
<1> SUFFICES ASSUME NEW raw \in Raw PROVE RawValues(raw) \in Seq(Texts)
  OBVIOUS
<1>1. CASE raw.kind = "values"
  BY <1>1 DEF Raw, RawValues
<1>2. CASE raw.kind # "values"
  BY <1>2 DEF RawValues
<1> QED
  BY <1>1, <1>2

LEMMA FieldsAreTexts ==
  ASSUME Outcome, NEW field \in Fields
  PROVE  StringField(field) \in Texts /\ ValuesField(field) \in Seq(Texts)
<1>1. response.fields[field] \in Raw
  BY DecoderAssumption DEF Outcome, IsResponse
<1>2. ValuesField(field) \in Seq(Texts)
  BY <1>1, ListOfTexts DEF ValuesField
<1>3. CASE response.fields[field].kind = "text"
  <2>1. response.fields[field].text \in Texts
    BY <1>1, <1>3 DEF Raw
  <2> QED
    BY <1>2, <1>3, <2>1, DecoderAssumption DEF StringField
<1>4. CASE response.fields[field].kind # "text"
  BY <1>2, <1>4, DecoderAssumption DEF StringField
<1> QED
  BY <1>3, <1>4

LEMMA KeysAreTexts ==
  ASSUME Outcome
  PROVE  /\ BinKeys \subseteq Texts /\ LaneKeys \subseteq Texts
         /\ \A key \in BinKeys : RawValues(response.bins[key]) \in Seq(Texts)
         /\ \A key \in LaneKeys : RawValues(response.lanes[key]) \in Seq(Texts)
         /\ Parameters \in Seq(Texts)
         /\ \A field \in FOMs \cup Grades \cup {"Lane"} :
              RawValues(response.eye[field]) \in Seq(Texts)
<1>1. IsResponse(response)
  BY DecoderAssumption DEF Outcome
<1>2. /\ \A key \in DOMAIN response.bins : response.bins[key] \in Raw
      /\ \A key \in DOMAIN response.lanes : response.lanes[key] \in Raw
      /\ response.serdesHeader \in Raw
      /\ \A field \in FOMs \cup Grades \cup {"Lane"} : response.eye[field] \in Raw
  BY <1>1 DEF IsResponse
<1> QED
  BY <1>1, <1>2, ListOfTexts DEF IsResponse, BinKeys, LaneKeys, Parameters

LEMMA PrintedIsAList ==
  ASSUME Outcome, NEW f \in PositionalLanes
  PROVE  Printed(f) \in Seq(Texts)
<1>1. StringField(f) \in Texts /\ ValuesField(f) \in Seq(Texts)
  BY FieldsAreTexts DEF Fields
<1>2. Commas[TrimRangeSuffix(StringField(f))] \in Seq(Texts)
  BY <1>1, Conversions, DecoderAssumption
<1>3. <<>> \in Seq(Texts)
  OBVIOUS
<1> QED
  BY <1>1, <1>2, <1>3 DEF Printed

-----------------------------------------------------------------------------
(* Lanes without a number line up.                                         *)

\* The value of each kind of lane.
LaneValue(f, text) ==
    IF f \in ListedLanes \cup CommaLanes THEN ParseFloatSafe(text)
    ELSE IF f \in FlagLanes THEN ParseFlag(text) ELSE ParseState(text)

Unit(f) == IF f \in CommaLanes THEN Divisor(f) ELSE 1

LaneSample(f, i) == Sample(i, i - 1, <<>>, LaneValue(f, Printed(f)[i]), Unit(f))

Kept(f) == {i \in DOMAIN Printed(f) : ~Unreadable(f, i)}

LEMMA PositionalSeries ==
  ASSUME Outcome, Decoded("Decode"), NEW f \in PositionalLanes
  PROVE  /\ data.series[f] = {LaneSample(f, i) : i \in Kept(f)}
         /\ \A i \in Kept(f) : LaneValue(f, Printed(f)[i]) # Invalid
<1> USE DEF LaneSample, Kept, LaneValue, Unit
<1>1. CASE f \in ListedLanes
  <2>1. f \notin CommaLanes
    BY <1>1 DEF ListedLanes, CommaLanes
  <2>2. Printed(f) = ValuesField(f) /\ Unit(f) = 1
    BY <2>1 DEF Printed
  <2>3. data.series[f] = LaneValues(Printed(f), 1)
    BY <1>1, <2>2, SeriesOf DEF Outcome
  <2>4. \A i : Unreadable(f, i) <=> ParseFloatSafe(Printed(f)[i]) = Invalid
    BY <1>1 DEF Unreadable, ListedLanes, CommaLanes, FlagLanes, StateLanes
  <2> QED
    BY <1>1, <2>2, <2>3, <2>4 DEF LaneValues
<1>2. CASE f \in CommaLanes
  <2>1. data.series[f] = CommaLaneValues(StringField(f), Divisor(f))
    BY <1>2, SeriesOf DEF Outcome
  <2>2. \A i : Unreadable(f, i) <=> ParseFloatSafe(Printed(f)[i]) = Invalid
    BY <1>2 DEF Unreadable, ListedLanes, CommaLanes, FlagLanes, StateLanes
  <2>3. Printed(f) = IF TrimRangeSuffix(StringField(f)) = "" THEN <<>>
                     ELSE Commas[TrimRangeSuffix(StringField(f))]
    BY <1>2 DEF Printed
  <2>4. data.series[f] = LaneValues(Printed(f), Divisor(f))
    <3>1. LaneValues(<<>>, Divisor(f)) = {}
      BY NoNumbers DEF LaneValues
    <3> QED
      BY <2>1, <2>3, <3>1 DEF CommaLaneValues
  <2> QED
    BY <1>2, <2>2, <2>4 DEF LaneValues
<1>3. CASE f \in FlagLanes
  <2>1. f \notin CommaLanes /\ f \notin ListedLanes \cup CommaLanes
    BY <1>3 DEF FlagLanes, ListedLanes, CommaLanes
  <2>2. Printed(f) = ValuesField(f) /\ Unit(f) = 1
    BY <2>1 DEF Printed
  <2>3. data.series[f] = LaneFlags(Printed(f))
    BY <1>3, <2>2, SeriesOf DEF Outcome
  <2>4. \A i : Unreadable(f, i) <=> \E j \in DOMAIN Printed(f) : ParseFlag(Printed(f)[j]) = Invalid
    BY <1>3 DEF Unreadable, ListedLanes, CommaLanes, FlagLanes, StateLanes
  <2> QED
    BY <1>3, <2>1, <2>2, <2>3, <2>4 DEF LaneFlags
<1>4. CASE f \in StateLanes
  <2>1. f \notin CommaLanes /\ f \notin ListedLanes \cup CommaLanes /\ f \notin FlagLanes
    BY <1>4 DEF StateLanes, FlagLanes, ListedLanes, CommaLanes
  <2>2. Printed(f) = ValuesField(f) /\ Unit(f) = 1
    BY <2>1 DEF Printed
  <2>3. data.series[f] = LaneStates(Printed(f))
    BY <1>4, <2>2, SeriesOf DEF Outcome
  <2>4. \A i : Unreadable(f, i) <=> \E j \in DOMAIN Printed(f) : ParseState(Printed(f)[j]) = Invalid
    BY <1>4 DEF Unreadable, ListedLanes, CommaLanes, FlagLanes, StateLanes
  <2> QED
    BY <2>1, <2>2, <2>3, <2>4 DEF LaneStates
<1> QED
  BY <1>1, <1>2, <1>3, <1>4 DEF PositionalLanes

LEMMA PositionalLanesOf ==
  ASSUME Outcome, Decoded("Decode"), NEW f \in PositionalLanes
  PROVE  Lanes(f) = {i - 1 : i \in Kept(f)}
<1>1. \A i : LaneSample(f, i).lane = i - 1
  BY DEF LaneSample, Sample
<1>2. data.series[f] = {LaneSample(f, i) : i \in Kept(f)}
  BY PositionalSeries
<1> QED
  BY <1>1, <1>2 DEF Lanes

\* A family of flags or states is unreadable as a whole or not at all.
LEMMA AllOrNone ==
  ASSUME NEW f \in FlagLanes \cup StateLanes, NEW i \in Kept(f)
  PROVE  Kept(f) = DOMAIN Printed(f)
<1>1. CASE f \in FlagLanes
  <2>1. \A k : Unreadable(f, k) <=> \E j \in DOMAIN Printed(f) : ParseFlag(Printed(f)[j]) = Invalid
    BY <1>1 DEF Unreadable, ListedLanes, CommaLanes, FlagLanes, StateLanes
  <2> QED
    BY <2>1 DEF Kept
<1>2. CASE f \in StateLanes
  <2>1. \A k : Unreadable(f, k) <=> \E j \in DOMAIN Printed(f) : ParseState(Printed(f)[j]) = Invalid
    BY <1>2 DEF Unreadable, ListedLanes, CommaLanes, FlagLanes, StateLanes
  <2> QED
    BY <2>1 DEF Kept
<1> QED
  BY <1>1, <1>2

\* Families printed with as many lanes have the same ones, those apart that
\* could not be read, and flags and states have all of theirs or none
\* (decoder.go:678-692, 710-751).
THEOREM LanesLineUpHolds == Spec => []LanesLineUp
<1>1. Inv => LanesLineUp
  <2> SUFFICES ASSUME Inv, Decoded("Decode") PROVE LanesLineUp
    BY DEF LanesLineUp
  <2>1. Outcome
    BY DEF Inv
  <2>2. ASSUME NEW f \in PositionalLanes, NEW g \in PositionalLanes,
               Len(Printed(f)) = Len(Printed(g)), NEW lane \in Lanes(f),
               ~Unreadable(g, lane + 1)
        PROVE  lane \in Lanes(g)
    <3>1. Printed(f) \in Seq(Texts) /\ Printed(g) \in Seq(Texts)
      BY <2>1, PrintedIsAList
    <3>2. DOMAIN Printed(f) = DOMAIN Printed(g) /\ DOMAIN Printed(f) \subseteq Int
      BY <2>2, <3>1
    <3>3. PICK i \in Kept(f) : lane = i - 1
      BY <2>1, <2>2, PositionalLanesOf
    <3>4. i \in Int /\ i \in DOMAIN Printed(g) /\ lane + 1 = i
      BY <3>2, <3>3 DEF Kept
    <3>5. i \in Kept(g)
      BY <2>2, <3>4 DEF Kept
    <3> QED
      BY <2>1, <3>3, <3>5, PositionalLanesOf
  <2>3. ASSUME NEW f \in FlagLanes \cup StateLanes, Lanes(f) # {}
        PROVE  Lanes(f) = {i - 1 : i \in DOMAIN Printed(f)}
    <3>1. Lanes(f) = {i - 1 : i \in Kept(f)}
      BY <2>1, PositionalLanesOf DEF PositionalLanes
    <3>2. PICK i \in Kept(f) : TRUE
      BY <2>3, <3>1
    <3> QED
      BY <3>1, <3>2, AllOrNone
  <2> QED
    BY <2>2, <2>3 DEF LanesLineUp
<1> QED
  BY <1>1, InvHolds, PTL

-----------------------------------------------------------------------------
(* No series twice.                                                        *)

Distinct(samples) ==
    \A s, t \in samples : s.lane = t.lane /\ s.tag = t.tag => s = t

LEMMA SharedMetric ==
  ASSUME NEW f \in Families, NEW g \in Families, Metric(f) = Metric(g), Stage(f) = Stage(g)
  PROVE  f = g
<1>1. \A h \in Families \ (FOMs \cup Grades) : Metric(h) = h
  BY DEF Metric, FOMs, Grades
<1>2. \A h \in FOMs : Metric(h) \in {"mlxlink_eye_fom", "mlxlink_pcie_eye_fom"}
  BY DEF Metric, FOMs, Grades
<1>3. \A h \in Grades : Metric(h) = "mlxlink_eye_grade"
  BY DEF Metric, FOMs, Grades
<1>4. Families \cap {"mlxlink_eye_fom", "mlxlink_pcie_eye_fom", "mlxlink_eye_grade"} = {}
  BY DEF Families, Measured, Flags, PositionalLanes, ListedLanes, CommaLanes, FlagLanes, StateLanes,
       FOMs, Grades
<1>5. CASE f \in FOMs
  <2>1. g \in FOMs
    BY <1>1, <1>2, <1>3, <1>4, <1>5
  <2> QED
    BY <1>5, <2>1 DEF Stage, FOMs
<1>6. CASE f \in Grades
  <2>1. g \in Grades
    BY <1>1, <1>2, <1>3, <1>4, <1>6
  <2> QED
    BY <1>6, <2>1 DEF Stage, Grades
<1>7. CASE f \notin FOMs \cup Grades
  BY <1>1, <1>2, <1>3, <1>4, <1>7
<1> QED
  BY <1>5, <1>6, <1>7

LEMMA DistinctScalar == \A number, unit : Distinct(Scalar(number, unit))
  BY DEF Distinct, Scalar

LEMMA DistinctPositional ==
  ASSUME Outcome, Decoded("Decode"), NEW f \in PositionalLanes
  PROVE  Distinct(data.series[f])
<1>1. data.series[f] = {LaneSample(f, i) : i \in Kept(f)}
  BY PositionalSeries
<1>2. Kept(f) \subseteq Int
  BY PrintedIsAList DEF Kept
<1>3. \A i, j \in Kept(f) : LaneSample(f, i).lane = LaneSample(f, j).lane => i = j
  BY <1>2 DEF LaneSample, Sample
<1> QED
  BY <1>1, <1>3 DEF Distinct

LEMMA DistinctEye ==
  ASSUME Outcome, NEW fields, NEW f
  PROVE  Distinct(DecodeEyeLaneValues(response.eye, fields, f))
<1> DEFINE rows == RawValues(response.eye["Lane"])
           Lane(i) == ParseNonnegativeInt(Trim[rows[i]])
           Value(i) == Sample(i, Lane(i), <<>>, ParseFiniteFloat(RawValues(response.eye[f])[i]), 1)
           readable == {j \in DOMAIN rows : EyeLaneScores(response.eye, fields, f, j)}
<1>1. \A i : Value(i).lane = Lane(i)
  BY DEF Sample
<1>2. CASE UniqueEyeLanes(rows)
  <2>1. \A i, j \in readable : Lane(i) = Lane(j) => i = j
    BY <1>2 DEF UniqueEyeLanes
  <2>2. Distinct({Value(i) : i \in readable})
    <3> HIDE DEF Value, Lane, readable
    <3> QED
      BY <1>1, <2>1 DEF Distinct
  <2>3. \/ DecodeEyeLaneValues(response.eye, fields, f) = {Value(i) : i \in readable}
        \/ DecodeEyeLaneValues(response.eye, fields, f) = {}
    BY DEF DecodeEyeLaneValues
  <2> QED
    BY <2>2, <2>3 DEF Distinct
<1>3. CASE ~UniqueEyeLanes(rows)
  BY <1>3 DEF DecodeEyeLaneValues, Distinct
<1> QED
  BY <1>2, <1>3

LEMMA DistinctFEC == Distinct(FECSamples)
<1>1. \A bin : Sample(bin, bin, bins[bin].range, bins[bin].occurrences, 1).lane = bin
  BY DEF Sample
<1> QED
  BY <1>1 DEF Distinct, FECSamples

LEMMA DistinctSerDes ==
  ASSUME LanesInv, Decoded("Decode"), NEW parameters
  PROVE  Distinct(SerDesSamples(parameters))
<1> DEFINE Value(lane, i) ==
             Sample(i, lane, <<Parameter(i)>>, ParseFiniteFloat(lanes[lane][i]), 1)
<1> SUFFICES ASSUME NEW s \in SerDesSamples(parameters), NEW t \in SerDesSamples(parameters),
                    s.lane = t.lane, s.tag = t.tag
             PROVE  s = t
  BY DEF Distinct
<1>a. PICK a \in SerDesKnownValues \X Known(parameters) : s = Value(a[1], a[2])
  BY DEF SerDesSamples
<1>b. PICK b \in SerDesKnownValues \X Known(parameters) : t = Value(b[1], b[2])
  BY DEF SerDesSamples
<1>0. PICK k \in SerDesKnownValues, l \in SerDesKnownValues,
           i \in Known(parameters), j \in Known(parameters) :
             s = Value(k, i) /\ t = Value(l, j)
  <2> HIDE DEF Value
  <2> QED
    BY <1>a, <1>b
<1>1. k = l /\ Parameter(i) = Parameter(j)
  <2>1. /\ Value(k, i).lane = k /\ Value(l, j).lane = l
        /\ Value(k, i).tag = <<Parameter(i)>> /\ Value(l, j).tag = <<Parameter(j)>>
    BY DEF Sample
  <2> QED
    BY <1>0, <2>1
<1>2. SerDesHeader
  <2>1. DOMAIN lanes # {}
    BY DEF SerDesKnownValues
  <2>2. LanesVisited(LaneKeys)
    BY <2>1, NoNumbers DEF LanesInv, LanesVoid
  <2> QED
    BY <2>1, <2>2 DEF LanesVisited, LaneKeys
<1>3. i = j
  BY <1>1, <1>2 DEF SerDesHeader, Known
<1> QED
  BY <1>0, <1>1, <1>3

\* No response makes the series of a device collide, which would cost the
\* whole scrape (decoder.go:283-284, 470, 488; collector.go:288-339).
THEOREM NoSeriesTwiceHolds == Spec => []NoSeriesTwice
<1>1. Inv => NoSeriesTwice
  <2> SUFFICES ASSUME Inv, NEW f \in Families PROVE Distinct(data.series[f])
    BY SharedMetric DEF NoSeriesTwice, SameSeries, Distinct
  <2>0. Outcome /\ LanesInv
    BY DEF Inv
  <2>1. CASE Decoded("Decode")
    <3>0. data = DecodedData
      BY <2>0, <2>1 DEF Outcome
    <3>1. CASE f \in Measured \cup Flags
      BY <2>1, <3>0, <3>1, SeriesOf, DistinctScalar
    <3>2. CASE f \in PositionalLanes
      BY <2>0, <2>1, <3>2, DistinctPositional
    <3>3. CASE f \in FOMs \cup Grades
      <4>1. data.series[f] = DecodeEyeLaneValues(response.eye, FOMs \cup Grades, f)
        BY <2>1, <3>0, <3>3, SeriesOf
      <4> QED
        BY <2>0, <4>1, DistinctEye
    <3>4. CASE f = "fec_histogram"
      BY <2>1, <3>0, <3>4, SeriesOf, DistinctFEC
    <3>5. CASE f \in {"fir", "drv_amp"}
      <4>1. data.series[f] \in {SerDesSamples(FIRTaps), SerDesSamples({"drv_amp"})}
        BY <2>1, <3>0, <3>5, SeriesOf
      <4> QED
        BY <2>0, <2>1, <4>1, DistinctSerDes
    <3> QED
      BY <3>1, <3>2, <3>3, <3>4, <3>5 DEF Families
  <2>2. CASE Decoded("DecodePCIeEye")
    <3>1. data = DecodedPCIeEye
      BY <2>0, <2>2 DEF Outcome
    <3>2. data.series[f] = DecodeEyeLaneValues(response.eye, FOMs, f) \/ data.series[f] = {}
      BY <3>1, PCIeSeriesOf
    <3> QED
      BY <2>0, <3>2, DistinctEye DEF Distinct
  <2>3. CASE data = EmptyData
    BY <2>3, EmptySeries DEF Distinct
  <2> QED
    <3>1. response.call \in {"Decode", "DecodePCIeEye"}
      BY <2>0, DecoderAssumption DEF Outcome, IsResponse
    <3> QED
      BY <3>1, <2>0, <2>1, <2>2, <2>3 DEF Outcome, Decoded
<1> QED
  BY <1>1, InvHolds, PTL

-----------------------------------------------------------------------------
(* Types.                                                                  *)

MapsType ==
    left \subseteq Texts /\ DOMAIN bins \subseteq 0..MaxInt /\ DOMAIN lanes \subseteq 0..MaxInt

LEMMA MapsStep == Outcome /\ MapsType /\ [Next]_vars => MapsType'
<1> SUFFICES ASSUME Outcome, MapsType, [Next]_vars PROVE MapsType'
  OBVIOUS
<1>1. CASE BeginFECBins \/ BeginSerDesLanes
  BY <1>1, KeysAreTexts DEF BeginFECBins, BeginSerDesLanes, MapsType, BinKeys, LaneKeys
<1>2. CASE FECBin
  <2>1. left' \subseteq left /\ lanes' = lanes
    BY <1>2 DEF FECBin
  <2>2. \/ DOMAIN bins' = {}
        \/ \E key \in left : /\ IsFECBin(key)
                             /\ DOMAIN bins' = DOMAIN bins \cup {ParseFECBin(key).bin}
    BY <1>2, NoNumbers DEF FECBin
  <2>3. \A key \in left : IsFECBin(key) => ParseFECBin(key).bin \in 0..MaxInt
    BY Conversions DEF IsFECBin, ParseFECBin, MapsType
  <2> QED
    BY <2>1, <2>2, <2>3 DEF MapsType
<1>3. CASE SerDesLane
  <2>1. left' \subseteq left /\ bins' = bins
    BY <1>3 DEF SerDesLane
  <2>2. \/ DOMAIN lanes' = {}
        \/ \E key \in left : /\ IsSerDesLane(key)
                             /\ DOMAIN lanes' = DOMAIN lanes \cup {ParseNonnegativeInt(key)}
    BY <1>3, NoNumbers DEF SerDesLane
  <2>3. \A key \in left : IsSerDesLane(key) => ParseNonnegativeInt(key) \in 0..MaxInt
    BY Conversions DEF IsSerDesLane, MapsType
  <2> QED
    BY <2>1, <2>2, <2>3 DEF MapsType
<1>4. CASE UNCHANGED <<left, bins, lanes>>
  BY <1>4 DEF MapsType
<1>5. CASE DecodeFails \/ DecodePCIeEye \/ DecodeReturns
  BY <1>4, <1>5 DEF DecodeFails, DecodePCIeEye, DecodeReturns
<1>6. CASE UNCHANGED vars
  BY <1>4, <1>6 DEF vars
<1> QED
  BY <1>1, <1>2, <1>3, <1>5, <1>6 DEF Next, Done

Typed(samples) == \A s \in samples : s.lane \in Nat /\ s.number \in Int

LEMMA TypedScalar ==
  ASSUME NEW number \in Int \cup {Invalid}, NEW unit
  PROVE  Typed(Scalar(number, unit))
  BY Assumed DEF Typed, Scalar, Sample

LEMMA TypedPositional ==
  ASSUME Outcome, Decoded("Decode"), NEW f \in PositionalLanes
  PROVE  Typed(data.series[f])
<1> SUFFICES ASSUME NEW i \in Kept(f)
             PROVE  LaneSample(f, i).lane \in Nat /\ LaneSample(f, i).number \in Int
  BY PositionalSeries DEF Typed
<1>1. Printed(f) \in Seq(Texts)
  BY PrintedIsAList
<1>2. i \in 1..Len(Printed(f)) /\ Printed(f)[i] \in Texts
  BY <1>1 DEF Kept
<1>3. LaneValue(f, Printed(f)[i]) \in Int \cup {Invalid}
  BY <1>2, Conversions DEF LaneValue
<1>4. LaneValue(f, Printed(f)[i]) # Invalid
  BY PositionalSeries
<1> QED
  BY <1>1, <1>2, <1>3, <1>4 DEF LaneSample, Sample

LEMMA TypedEye ==
  ASSUME Outcome, NEW fields \in {FOMs, FOMs \cup Grades}, NEW f \in fields
  PROVE  Typed(DecodeEyeLaneValues(response.eye, fields, f))
<1> DEFINE rows == RawValues(response.eye["Lane"])
           list == RawValues(response.eye[f])
<1> SUFFICES ASSUME EyeFamilies(response.eye, fields, Len(rows)), UniqueEyeLanes(rows),
                    NEW i \in DOMAIN rows, EyeLaneScores(response.eye, fields, f, i)
             PROVE  /\ ParseNonnegativeInt(Trim[rows[i]]) \in Nat
                    /\ ParseFiniteFloat(list[i]) \in Int
  BY DEF Typed, DecodeEyeLaneValues, Sample
<1>1. rows \in Seq(Texts) /\ list \in Seq(Texts)
  BY KeysAreTexts
<1>2. Len(list) = Len(rows)
  BY DEF EyeFamilies
<1>3. rows[i] \in Texts /\ list[i] \in Texts
  <2>1. i \in 1..Len(rows) /\ i \in 1..Len(list)
    BY <1>1, <1>2
  <2> HIDE DEF rows, list
  <2> QED
    BY <1>1, <2>1
<1>4. ParseFiniteFloat(list[i]) \in Int \cup {Invalid}
  <2> HIDE DEF list
  <2> QED
    BY <1>3, Conversions
<1>5. Trim[rows[i]] \in Texts
  BY <1>3, DecoderAssumption
<1>6. ParseNonnegativeInt(Trim[rows[i]]) \in Nat \cup {NoNumber}
  <2>1. \A n \in 0..MaxInt : n \in Nat
    BY Assumed
  <2> HIDE DEF rows
  <2> QED
    BY <1>5, <2>1, Conversions
<1>7. ParseNonnegativeInt(Trim[rows[i]]) # NoNumber
  BY DEF UniqueEyeLanes
<1>8. ParseFiniteFloat(list[i]) # Invalid
  BY DEF EyeLaneScores
<1> QED
  BY <1>4, <1>6, <1>7, <1>8

LEMMA TypedFEC ==
  ASSUME Outcome, MapsType, BinsVisited(BinKeys) \/ BinsVoid
  PROVE  Typed(FECSamples)
<1> SUFFICES ASSUME NEW bin \in DOMAIN bins
             PROVE  bin \in Nat /\ bins[bin].occurrences \in Int
  BY DEF Typed, FECSamples, Sample
<1>1. bin \in Nat
  BY Assumed DEF MapsType
<1>2. PICK key \in BinKeys : bins[bin] = ParseFECBin(key) /\ IsFECBin(key)
  BY NoNumbers DEF BinsVisited, BinsVoid
<1>3. RawValues(response.bins[key]) \in Seq(Texts) /\ Len(RawValues(response.bins[key])) = 2
  BY <1>2, KeysAreTexts DEF IsFECBin
<1>4. Trim[RawValues(response.bins[key])[2]] \in Texts
  BY <1>3, Assumed
<1>5. ParseFECBin(key).occurrences \in Nat
  BY <1>2, <1>4, Conversions DEF ParseFECBin, IsFECBin
<1> QED
  BY <1>1, <1>2, <1>5

LEMMA TypedSerDes ==
  ASSUME Outcome, MapsType, LanesVisited(LaneKeys) \/ LanesVoid,
         NEW parameters \in {FIRTaps, {"drv_amp"}}
  PROVE  Typed(SerDesSamples(parameters))
<1> SUFFICES ASSUME NEW lane \in SerDesKnownValues, NEW i \in Known(parameters)
             PROVE  lane \in Nat /\ ParseFiniteFloat(lanes[lane][i]) \in Int
  BY DEF Typed, SerDesSamples, Sample
<1>1. lane \in DOMAIN lanes /\ lane \in Nat
  BY Assumed DEF MapsType, SerDesKnownValues
<1>2. PICK key \in LaneKeys : lanes[lane] = RawValues(response.lanes[key]) /\ IsSerDesLane(key)
  BY <1>1, NoNumbers DEF LanesVisited, LanesVoid
<1>3. /\ lanes[lane] \in Seq(Texts) /\ Parameters \in Seq(Texts)
      /\ Len(lanes[lane]) = Len(Parameters)
  BY <1>2, KeysAreTexts DEF IsSerDesLane
<1>4. i \in 1..Len(lanes[lane])
  BY <1>3 DEF Known
<1>5. ParseFiniteFloat(lanes[lane][i]) \in Int \cup {Invalid}
  BY <1>3, <1>4, Conversions
<1>6. i \in Known(FIRTaps \cup {"drv_amp"})
  BY DEF Known
<1> QED
  BY <1>1, <1>5, <1>6 DEF SerDesKnownValues

\* Nothing decoded is a wrapped number or one that could not be read
\* (decoder.go:531-537, 787-815).
THEOREM TypeOKHolds == Spec => []TypeOK
<1>1. Init => MapsType
  BY NoNumbers DEF Init, MapsType
<1>2. Inv /\ MapsType /\ [Next]_vars => (Inv /\ MapsType)'
  BY OutcomeStep, BinsStep, LanesStep, MapsStep DEF Inv
<1>3. Inv /\ MapsType => TypeOK
  <2> SUFFICES ASSUME Inv, MapsType PROVE TypeOK
    OBVIOUS
  <2>0. Outcome /\ BinsInv /\ LanesInv
    BY DEF Inv
  <2>1. CASE Decoded("Decode")
    <3>0. data = DecodedData
      BY <2>0, <2>1 DEF Outcome
    <3>1. \A l \in Labels : data.labels[l] \in Texts
      BY <2>0, <3>0, FieldsAreTexts DEF DecodedData, Fields
    <3>2. ASSUME NEW f \in Measured \cup Flags PROVE Typed(data.series[f])
      <4>1. StringField(f) \in Texts
        BY <2>0, FieldsAreTexts DEF Fields
      <4> QED
        BY <2>1, <3>0, <4>1, SeriesOf, Conversions, TypedScalar
    <3>3. \A f \in PositionalLanes : Typed(data.series[f])
      BY <2>0, <2>1, TypedPositional
    <3>4. \A f \in FOMs \cup Grades : Typed(data.series[f])
      BY <2>0, <2>1, <3>0, SeriesOf, TypedEye
    <3>5. Typed(data.series["fec_histogram"])
      BY <2>0, <2>1, <3>0, SeriesOf, TypedFEC DEF BinsInv
    <3>6. Typed(data.series["fir"]) /\ Typed(data.series["drv_amp"])
      BY <2>0, <2>1, <3>0, SeriesOf, TypedSerDes DEF LanesInv
    <3>7. \A f \in Families : Typed(data.series[f])
      BY <3>2, <3>3, <3>4, <3>5, <3>6 DEF Families
    <3> QED
      BY <2>0, <3>1, <3>7 DEF TypeOK, Typed, Outcome, MapsType
  <2>2. CASE Decoded("DecodePCIeEye")
    <3>0. data = DecodedPCIeEye
      BY <2>0, <2>2 DEF Outcome
    <3>1. \A l \in Labels : data.labels[l] \in Texts
      BY <3>0, DecoderAssumption DEF DecodedPCIeEye, EmptyData
    <3>2. \A f \in Families : Typed(data.series[f])
      BY <2>0, <3>0, PCIeSeriesOf, TypedEye DEF Typed
    <3> QED
      BY <2>0, <3>1, <3>2 DEF TypeOK, Typed, Outcome, MapsType
  <2>3. CASE data = EmptyData
    <3>1. \A l \in Labels : data.labels[l] \in Texts
      BY <2>3, DecoderAssumption DEF EmptyData
    <3> QED
      BY <2>0, <2>3, <3>1, EmptySeries DEF TypeOK, Outcome, MapsType
  <2> QED
    <3>1. response.call \in {"Decode", "DecodePCIeEye"}
      BY <2>0, DecoderAssumption DEF Outcome, IsResponse
    <3> QED
      BY <3>1, <2>0, <2>1, <2>2, <2>3 DEF Outcome, Decoded
<1> QED
  BY InitInv, <1>1, <1>2, <1>3, PTL DEF Spec
=============================================================================
