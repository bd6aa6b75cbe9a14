------------------------------ MODULE MCDecoder -----------------------------
(***************************************************************************)
(* Texts and responses for TLC: one section varied at a time.              *)
(***************************************************************************)
EXTENDS Export

Numbers == {"0", "1", "3", "5", "7", "8", "15"}

MCTexts ==
    Numbers \cup {"", " ", "x", "n/a", "1e999", "01", " 1", "16", "61", "61 [0..80]",
        "[0]", "[1:3]", "1:3", "[3:1]", "3:1", "Range", "Occurrences",
        "3,n/a,5 [0..9]", "3,n/a,5", "DPActivated", "DPInit",
        "fir_main", "fir_main ", "fir_pre1", "drv_amp", "new"}

MCTrim == [t \in MCTexts |->
    CASE t = " " -> "" [] t = " 1" -> "1" [] t = "fir_main " -> "fir_main" [] OTHER -> t]

MCFloat == [t \in MCTexts |->
    CASE t = "0" -> 0 [] t \in {"1", "01"} -> 1 [] t = "3" -> 3 [] t = "5" -> 5 [] t = "7" -> 7
      [] t = "8" -> 8 [] t = "15" -> 15 [] t = "16" -> 16 [] t = "61" -> 61
      [] t = "1e999" -> NonFinite [] OTHER -> Invalid]

\* Leading zeros are read, surrounding blanks are not.
MCUint == [t \in MCTexts |-> IF MCFloat[t] \in Int THEN MCFloat[t] ELSE NoNumber]

MCUnranged == [t \in MCTexts |->
    CASE t = "61 [0..80]" -> "61" [] t = "3,n/a,5 [0..9]" -> "3,n/a,5" [] OTHER -> NoText]
MCUnbracketed == [t \in MCTexts |->
    CASE t = "[0]" -> "0" [] t = "[1:3]" -> "1:3" [] t = "[3:1]" -> "3:1" [] OTHER -> NoText]
MCCommas == [t \in MCTexts |-> IF t = "3,n/a,5" THEN <<"3", "n/a", "5">> ELSE <<t>>]
MCColons == [t \in MCTexts |->
    CASE t = "1:3" -> <<"1", "3">> [] t = "3:1" -> <<"3", "1">> [] OTHER -> <<t>>]

Other == [kind |-> "other"]
Text(t) == [kind |-> "text", text |-> t]
Values(list) == [kind |-> "values", values |-> list]

Maps(keys, values, size) == UNION {[k -> values] : k \in {s \in SUBSET keys : Cardinality(s) <= size}}

\* A response with nothing in it.
Blank == [call |-> "Decode", json |-> TRUE, status |-> 0, output |-> "object",
          fields |-> [field \in Fields |-> Other],
          fecHeader |-> Other, bins |-> <<>>, serdesHeader |-> Other, lanes |-> <<>>,
          eye |-> [field \in FOMs \cup Grades \cup {"Lane"} |-> Other]]

Envelopes == {[Blank EXCEPT !.json = j, !.status = s, !.output = o] :
    j \in BOOLEAN, s \in {0, 1}, o \in {"object", "missing", "misshapen"}}

FieldsOf(some) == [field \in Fields |-> IF field \in DOMAIN some THEN some[field] ELSE Other]

Lists(texts, length) == {Values(list) : list \in [1..length -> texts]}

Positional == {[Blank EXCEPT !.fields = FieldsOf(
        [raw_errors_per_lane |-> errors, rx_power |-> power, tx_fault |-> fault, rx_los |-> los,
         datapath_state |-> state, voltage |-> Text(t), vendor |-> Text(" "),
         module_fw_fault |-> Text(t)])] :
    errors \in Lists({"3", "n/a"}, 3), power \in {Text("3,n/a,5 [0..9]"), Text("n/a"), Other},
    fault \in Lists({"0", "1"}, 3), los \in {Values(<<"0", "1", "3">>), Values(<<"1", "0", "0">>)},
    state \in {Values(<<"DPActivated", "DPInit", t>>) : t \in {"DPInit", "", "n/a"}},
    t \in {"61 [0..80]", "1e999", "1"}}

Bins == {[Blank EXCEPT !.fecHeader = header, !.bins = map] :
    header \in {Values(<<"Range", "Occurrences">>), Values(<<"Occurrences", "Range">>)},
    map \in Maps({"0", "1", "01", "3", "8"},
                 {Values(<<"[0]", "15">>), Values(<<"[1:3]", "5">>), Values(<<"[3:1]", "5">>)}, 3)
            \cup Maps({"0", "x"}, {Values(<<"[0]", "16">>), Values(<<"[0]">>),
                                   Values(<<"x", "1">>), Text("0")}, 2)}

SerDes == {[Blank EXCEPT !.serdesHeader = Values(header), !.lanes = map] :
    header \in {<<"fir_main", "drv_amp">>, <<"fir_pre1", "new">>, <<"fir_main", "fir_main ">>, <<>>},
    map \in Maps({"0", "1", "01", "8", "x"},
                 {Values(<<"3", "5">>), Values(<<"3", "x">>), Values(<<"3">>)}, 3)}

Eyes(call, fields) == {[Blank EXCEPT !.call = call, !.eye = [field \in FOMs \cup Grades \cup {"Lane"} |->
        IF field = "Lane" THEN rows ELSE IF field \in fields THEN some[field] ELSE Other]] :
    rows \in Lists({"0", "1", " 1", "8"}, 2) \cup {Values(<<>>), Text("0")},
    some \in [fields -> {Values(<<"5", "3">>), Values(<<"5", "x">>)}]
             \cup [fields -> {Values(<<"5", "5">>), Values(<<"5">>)}]}

MCResponses == Envelopes \cup Positional \cup Bins \cup SerDes
               \cup Eyes("Decode", FOMs \cup Grades) \cup Eyes("DecodePCIeEye", FOMs)
=============================================================================
