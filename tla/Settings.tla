------------------------------- MODULE Settings -------------------------------
(***************************************************************************)
(* internal/config: the numbers and durations that Load reads from the     *)
(* environment, what it refuses, and the values that the components put in *)
(* the place of what Load lets through: client.New, NewBatchBuffer,        *)
(* Poller.Start and PollBins.  The constants of the other modules are      *)
(* assumed to be such effective settings.                                  *)
(*                                                                         *)
(* A definition marked "Variant" is the one after it with a plausible      *)
(* mistake; no specification uses it.                                      *)
(***************************************************************************)
EXTENDS Integers, FiniteSets

CONSTANTS
    Unset,      \* the variable is missing or empty
    Garbage,    \* a text that does not parse
    NaN,        \* what ParseFloat makes of "NaN"
    Numbers     \* bound: the numbers that a variable is set to

ASSUME SettingsAssumption ==
    /\ Numbers \subseteq Int
    /\ {Unset, Garbage, NaN} \cap Int = {}

\* The default of each variable, in its own unit.
Default ==
    [LOCATION_POLL_INTERVAL    |-> 900,
     BIN_POLL_INTERVAL         |-> 300,
     BIN_WORKER_CONCURRENCY    |-> 8,
     RATE_LIMIT_RPS            |-> 8,
     RATE_LIMIT_BURST          |-> 16,
     HTTP_TIMEOUT              |-> 10,
     CLICKHOUSE_BATCH_SIZE     |-> 500,
     CLICKHOUSE_FLUSH_INTERVAL |-> 5]

Variables == DOMAIN Default

\* getEnvInt, getEnvFloat, getEnvDuration: only ParseFloat knows NaN.
Parses(name, text) ==
    /\ text \notin {Unset, Garbage}
    /\ text = NaN => name = "RATE_LIMIT_RPS"

Config(env) ==
    [name \in Variables |-> IF Parses(name, env[name]) THEN env[name] ELSE Default[name]]

\* Go's comparisons with zero: NaN is neither above it nor not.
Above(x)    == x # NaN /\ x > 0
NotAbove(x) == x # NaN /\ x <= 0

\* Load returns a configuration and no error.
Loads(env) ==
    /\ ~NotAbove(Config(env)["BIN_WORKER_CONCURRENCY"])
    /\ ~NotAbove(Config(env)["RATE_LIMIT_RPS"])

\* Variant: zero is let through.
OrDefaultZero(name, x) == IF x = NaN \/ x < 0 THEN Default[name] ELSE x

\* Each component replaces what is not above zero by its own default, the same as
\* that of Load.
OrDefault(name, x) == IF Above(x) THEN x ELSE Default[name]

\* What the rate limiter, the HTTP client, the tickers, the batch buffer and the bin
\* workers are made with.
Effective(env) == [name \in Variables |-> OrDefault(name, Config(env)[name])]
-------------------------------------------------------------------------------
(* Properties.                                                              *)

\* At most two variables are set: no setting depends on more than its own.
Environments ==
    UNION {{[name \in Variables |-> IF name \in set THEN text[name] ELSE Unset] :
                text \in [set -> {Garbage, NaN} \cup Numbers]} :
              set \in {s \in SUBSET Variables : Cardinality(s) <= 2}}

\* A configuration that loads can run: no ticker panics on an interval that is not
\* positive, no rate limiter refuses every request, no batch or pool is empty; and a
\* positive number that was set is the one in use.  Load refuses a number of workers
\* or a rate that is not positive, and nothing else.
EffectiveSettings ==
    \A env \in Environments :
        LET positive == {name \in Variables : env[name] \in {n \in Numbers : n > 0}}
            negative == {name \in Variables : env[name] \in {n \in Numbers : n <= 0}}
        IN  /\ Loads(env) <=> negative \cap {"BIN_WORKER_CONCURRENCY", "RATE_LIMIT_RPS"} = {}
            /\ \A name \in Variables : Above(Effective(env)[name])
            /\ \A name \in positive : Effective(env)[name] = env[name]
===============================================================================
