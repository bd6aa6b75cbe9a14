------------------------------- MODULE Export -------------------------------
(***************************************************************************)
(* The series the collectors make of what was decoded for one device.      *)
(*                                                                         *)
(* Prometheus tells two series apart by the metric and the labels. A       *)
(* scrape in which one appears twice fails as a whole, for every device.   *)
(*                                                                         *)
(* A definition whose comment begins with "Faulty:" is a slip the code     *)
(* could have made in the definition below it; nothing else uses it.       *)
(***************************************************************************)
EXTENDS Decoder

\* Most families have a metric of their own.
Metric(family) ==
    CASE family \in FOMs -> IF response.call = "Decode" THEN "mlxlink_eye_fom"
                            ELSE "mlxlink_pcie_eye_fom"
      [] family \in Grades -> "mlxlink_eye_grade"
      [] OTHER -> family

\* Faulty: the two figures of merit are not told apart (NoSeriesTwice).
NoStage(family) == ""

\* The stage or the position, where several families share a metric.
Stage(family) ==
    CASE family = "Initial FOM" -> "initial"
      [] family = "Last FOM" -> "last"
      [] family = "Upper Grades" -> "upper"
      [] family = "Mid Grades" -> "mid"
      [] family = "Lower Grades" -> "lower"
      [] OTHER -> ""

SameSeries(f, sample, g, other) ==
    /\ Metric(f) = Metric(g) /\ Stage(f) = Stage(g)
    /\ sample.lane = other.lane /\ sample.tag = other.tag

\* No response makes a device's data name a series twice (decoder.go:283-284,
\* 345, 470, 488; collector.go:288-339; pcie_eye_collector.go:107-118).
NoSeriesTwice ==
    \A f, g \in Families : \A sample \in data.series[f], other \in data.series[g] :
        SameSeries(f, sample, g, other) => f = g /\ sample = other
=============================================================================
