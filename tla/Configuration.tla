--------------------------- MODULE Configuration ---------------------------
(***************************************************************************)
(* Parse: a configuration from the environment and the command line.       *)
(*                                                                         *)
(* Of an option's value the model keeps what main's way through start-up   *)
(* depends on. Addresses, file names and the list of excluded devices are  *)
(* passed on unread and are left out.                                      *)
(***************************************************************************)
EXTENDS Integers

CONSTANTS
    Unset,      \* not given
    Blank,      \* given, but nothing or only blanks
    Bad,        \* given, and of no use to the option: no duration, no level,
                \* a path net/http rejects
    Settings    \* the environments and command lines considered

Durations == {"poll-interval", "command-timeout"}
Booleans == {"show-eye", "show-pcie-eye"}
Paths == {"metrics-path", "health-path", "ready-path"}
Options == Durations \cup Booleans \cup Paths \cup {"log-level"}

\* Durations in seconds.
Default == [option \in Options |->
    CASE option = "poll-interval" -> 30
      [] option = "command-timeout" -> 3
      [] option \in Booleans -> "false"
      [] option = "metrics-path" -> "/metrics"
      [] option = "health-path" -> "/healthz"
      [] option = "ready-path" -> "/readyz"
      [] option = "log-level" -> "info"]

\* args: what the flag package makes of the command line, the value of a flag
\* included. mlxlink: its binary is accessible.
IsSettings(s) ==
    /\ s.args \in {"parsed", "help", "malformed"} /\ s.version \in BOOLEAN /\ s.mlxlink \in BOOLEAN
    /\ \A option \in Durations : s.env[option] \in Int \cup {Unset, Blank, Bad}
                              /\ s.flag[option] \in Int \cup {Unset}
    /\ \A option \in Options \ Durations : s.env[option] \in STRING \cup {Unset, Blank, Bad}
                                         /\ s.flag[option] \in STRING \cup {Unset, Blank, Bad}
    /\ \A option \in Booleans : s.flag[option] \notin {Blank, Bad}

ASSUME ConfigurationAssumption ==
    /\ \A other \in {Unset, Blank, Bad} : other \notin Int \cup STRING
    /\ \A s \in Settings : IsSettings(s)

\* Blanks around a value are trimmed, but not those of a duration.
FromEnv(s, option) ==
    IF s.env[option] # Blank THEN s.env[option] ELSE IF option \in Durations THEN Bad ELSE Unset

Given(s, option) ==
    IF s.flag[option] # Unset THEN s.flag[option]
    ELSE IF FromEnv(s, option) # Unset THEN FromEnv(s, option) ELSE Default[option]

\* A variable that cannot be read is an error even when a flag overrides it, or
\* only help is asked for; a level is read after the flag has overridden it.
Misread(s) == \E option \in Durations \cup Booleans : FromEnv(s, option) = Bad

\* Both durations must be positive.
Invalid(s) == Given(s, "log-level") = Bad \/ \E option \in Durations : Given(s, option) <= 0

\* What Parse returns: an error, a request for help or a configuration.
Parse(s) ==
    IF Misread(s) THEN "error"
    ELSE IF s.args = "help" THEN "help"
    ELSE IF s.args = "malformed" \/ Invalid(s) THEN "error" ELSE "config"

\* Parse does not look at the paths: net/http panics over one it cannot register
\* or has registered already.
PathsUsable(s) ==
    /\ \A path \in Paths : Given(s, path) \notin {Blank, Bad}
    /\ \A p, q \in Paths : Given(s, p) = Given(s, q) => p = q
=============================================================================
