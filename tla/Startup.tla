-------------------------------- MODULE Startup --------------------------------
(***************************************************************************)
(* What main makes of a configuration before it serves: Validate of        *)
(* internal/config, initializeCache of cmd/gateway and NewManager of       *)
(* internal/chain each judge it by rules of their own.                     *)
(***************************************************************************)

CONSTANTS
    Name,     \* names of chains, as they may stand in the configuration
    Config    \* the configurations considered

NoName == ""

\* A configuration as viper hands it over (it writes the names of the chains,
\* and not that of the default, in lower case).  An enabled chain is "broken"
\* when its URL, user or password is empty, its time-out less than a second or
\* its max_retries not in 0 .. 10; bare is a port or log level out of range.
Conf == [chains : [Name -> {"absent", "disabled", "broken", "sound"}],
         default : Name \cup {NoName},
         type : {"filesystem", "redis", "memcached", "multi", "none", "other"},
         bare : BOOLEAN]

ASSUME ConfigAssumption == Config \subseteq Conf

Named(c) == {n \in Name : c.chains[n] # "absent"}
Enabled(c) == {n \in Name : c.chains[n] \in {"broken", "sound"}}

\* The default must be named, enabled or not; disabled chains are not looked at.
Validate(c) ==
    /\ ~c.bare
    /\ Named(c) # {}
    /\ c.default # NoName => c.default \in Named(c)
    /\ \A n \in Enabled(c) : c.chains[n] # "broken"
    /\ c.type \in {"filesystem", "redis", "memcached", "multi"}

\* What initializeCache may return: nothing at all when the type is unknown.
CacheOf(c) == CASE c.type \in {"filesystem", "redis"} -> {"open"}
                [] c.type = "none" -> {"none"}
                [] OTHER -> {}

Managers(c, default) == [clients : {Enabled(c)}, default : default]

\* Wrong variant: the default has been validated, so it is not looked up.
NewManagerTrusting(c) ==
    IF c.default # NoName THEN Managers(c, {c.default}) ELSE Managers(c, Enabled(c))

\* What NewManager may return: nothing when no chain is enabled or the default
\* is not among them; without a default any of the map's chains becomes it.
NewManager(c) ==
    IF c.default # NoName THEN Managers(c, {c.default} \cap Enabled(c)) ELSE Managers(c, Enabled(c))
================================================================================
