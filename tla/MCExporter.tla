----------------------------- MODULE MCExporter -----------------------------
(* Environments and command lines for TLC. *)
EXTENDS Exporter

Nothing == [option \in Options |-> Unset]
Plain == [args |-> "parsed", version |-> FALSE, mlxlink |-> TRUE, env |-> Nothing, flag |-> Nothing]

\* What an option may be given as, where it makes a difference.
Values(option) ==
    CASE option \in Durations -> {-1, 0, 5}
      [] option \in Booleans -> {"true"}
      [] option \in Paths -> {"/metrics", "/x"}
      [] option = "log-level" -> {"debug"}

EnvValues(option) == Values(option) \cup {Unset, Blank, Bad}
FlagValues(option) ==
    Values(option) \cup {Unset} \cup (IF option \in Durations \cup Booleans THEN {} ELSE {Blank, Bad})

\* Any variable against any flag for one option, and any command line.
MCSettings ==
    UNION {{[Plain EXCEPT !.env[option] = e, !.flag[option] = f] :
                e \in EnvValues(option), f \in FlagValues(option)} :
            option \in {"poll-interval", "show-eye", "ready-path", "log-level"}}
    \cup {[Plain EXCEPT !.args = a, !.version = v, !.mlxlink = m,
                        !.env["command-timeout"] = e, !.flag["command-timeout"] = f] :
            a \in {"parsed", "help", "malformed"}, v \in BOOLEAN, m \in BOOLEAN,
            e \in {Unset, Bad, 0}, f \in {Unset, 5}}
=============================================================================
