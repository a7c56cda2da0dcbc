----------------------------- MODULE StartupConfig -----------------------------
(***************************************************************************)
(* internal/config and the part of cmd/server that uses it: from the       *)
(* environment of the process to the database it connects to and the port  *)
(* it listens on.  What is acquired on the way, and given back when a step *)
(* fails, is in ServerLifecycle.                                           *)
(***************************************************************************)
EXTENDS Integers, Sequences

CONSTANTS
    Ports,      \* the integers that INTERNAL_PORT may spell
    Malformed,  \* a value that does not parse, or that names no instance
    NULL        \* not set, or empty: os.Getenv does not tell them apart

(* A value that is missing or does not parse is none of those that do.     *)
ASSUME ValuesAssumption ==
    /\ NULL # Malformed
    /\ \A v \in {NULL, Malformed} :
        /\ v \notin Ports
        /\ v \notin {"local", "staging", "production", "url", "true", "false",
                     "instance"}

Environment ==
    [ENV : {NULL, "local", "staging", "production", "other"},
     INTERNAL_PORT : Ports \cup {NULL, Malformed},
     DATABASE_CONN : {NULL, Malformed, "url"},
     DATABASE_IAM_AUTH_ENABLED : {NULL, Malformed, "true", "false"},
     CLOUDSQL_CONNECTION_NAME : {NULL, Malformed, "instance"}]

VARIABLES
    env,     \* the environment, which does not change
    step,    \* how far run is
    cfg,     \* the Config; NULL while there is none
    target,  \* what the pool's connections will dial; NULL without a pool
    port,    \* the port of the listener, 0 for any that is free, or NULL
    blamed   \* what the error names; NULL without an error

vars == <<env, step, cfg, target, port, blamed>>

Init ==
    /\ env \in Environment
    /\ step = "FromEnv"
    /\ cfg = NULL /\ target = NULL /\ port = NULL /\ blamed = NULL

-----------------------------------------------------------------------------
(* config.go.  A getter tells whether it refuses the value.                *)

(* Mutant: any name of an environment will do. *)
parseEnvAny(s) == s = NULL

parseEnv(s) == s \notin {"local", "staging", "production"}

getRequiredString(v) == v = NULL

getRequiredBool(v) == v \notin {"true", "false"}

(* Every integer passes: the range is net.Listen's affair. *)
getRequiredInt(v) == v \in {NULL, Malformed}

(* The variables in the order in which FromEnv reads them. *)
Read == <<"ENV", "INTERNAL_PORT", "DATABASE_CONN", "DATABASE_IAM_AUTH_ENABLED",
          "CLOUDSQL_CONNECTION_NAME">>

(* The name of an instance is only read with IAM authentication. *)
Refused(e, name) ==
    CASE name = "ENV" -> parseEnv(e.ENV)
      [] name = "INTERNAL_PORT" -> getRequiredInt(e.INTERNAL_PORT)
      [] name = "DATABASE_CONN" -> getRequiredString(e.DATABASE_CONN)
      [] name = "DATABASE_IAM_AUTH_ENABLED" ->
            getRequiredBool(e.DATABASE_IAM_AUTH_ENABLED)
      [] OTHER -> /\ e.DATABASE_IAM_AUTH_ENABLED = "true"
                  /\ getRequiredString(e.CLOUDSQL_CONNECTION_NAME)

Config(e) ==
    LET iam == e.DATABASE_IAM_AUTH_ENABLED = "true" IN
    [Env |-> e.ENV, InternalPort |-> e.INTERNAL_PORT,
     DatabaseConn |-> e.DATABASE_CONN, DatabaseIAMAuthEnabled |-> iam,
     CloudSQLConnectionName |-> IF iam THEN e.CLOUDSQL_CONNECTION_NAME ELSE NULL]

(* return err, all the way up to main. *)
Fail(what) == step' = "exit" /\ blamed' = what

Go(to) == step' = to /\ UNCHANGED blamed

FromEnv ==
    LET refused == {i \in DOMAIN Read : Refused(env, Read[i])} IN
    /\ step = "FromEnv"
    /\ \/ refused = {} /\ Go("setupLogger") /\ cfg' = Config(env)
       \/ \E i \in refused :
            /\ \A j \in refused : i <= j
            /\ Fail(Read[i]) /\ UNCHANGED cfg
    /\ UNCHANGED <<env, target, port>>

-----------------------------------------------------------------------------
(* cmd/server.                                                             *)

setupLogger ==
    /\ step = "setupLogger"
    /\ IF cfg.Env \in {"production", "staging", "local"}
       THEN Go("newDatabasePool") ELSE Fail("logger")
    /\ UNCHANGED <<env, cfg, target, port>>

(* The steps that may fail with every variable in order: a dialer without  *)
(* credentials, a pool that is not made, a port that is taken.             *)
DialerFails == cfg.DatabaseIAMAuthEnabled /\ Fail("dialer")
PoolFails == Fail("pool")
ListenerFails == Fail("listener")

(* pgx looks at the connection string first, then a dialer is made, if any *)
(* is needed, then the pool.                                               *)
NoPool ==
    /\ \/ cfg.DatabaseConn = Malformed /\ Fail("DATABASE_CONN")
       \/ cfg.DatabaseConn # Malformed /\ (DialerFails \/ PoolFails)
    /\ UNCHANGED target

(* Mutant: no DialFunc, for the connection string has a host, too. *)
newDatabasePoolUndialled ==
    /\ step = "newDatabasePool"
    /\ \/ NoPool
       \/ /\ cfg.DatabaseConn # Malformed
          /\ Go("listen") /\ target' = cfg.DatabaseConn
    /\ UNCHANGED <<env, cfg, port>>

(* With IAM authentication the dialer takes every connection to the        *)
(* instance, whatever host the connection string names; nothing is dialled *)
(* yet, so nobody finds out here that there is no such instance.           *)
newDatabasePool ==
    /\ step = "newDatabasePool"
    /\ \/ NoPool
       \/ /\ cfg.DatabaseConn # Malformed
          /\ Go("listen")
          /\ target' = IF cfg.DatabaseIAMAuthEnabled
                       THEN cfg.CloudSQLConnectionName ELSE cfg.DatabaseConn
    /\ UNCHANGED <<env, cfg, port>>

(* What net.Listen takes for a port. *)
TCPPorts == 0..65535

Listen ==
    /\ step = "listen"
    /\ \/ /\ cfg.InternalPort \in TCPPorts
          /\ Go("serve") /\ port' = cfg.InternalPort
       \/ /\ cfg.InternalPort \in TCPPorts
          /\ ListenerFails /\ UNCHANGED port
       \/ /\ cfg.InternalPort \notin TCPPorts
          /\ Fail("INTERNAL_PORT") /\ UNCHANGED port
    /\ UNCHANGED <<env, cfg, target>>

Next == FromEnv \/ setupLogger \/ newDatabasePool \/ Listen

Spec == Init /\ [][Next]_vars

-----------------------------------------------------------------------------
(* Properties                                                              *)

(* What makes an environment unusable, whoever finds out and when.  A      *)
(* connection name that is not needed may be anything.                     *)
Faulty(e, name) ==
    CASE name = "ENV" -> e.ENV \in {NULL, "other"}
      [] name = "INTERNAL_PORT" -> e.INTERNAL_PORT \notin Ports \cap TCPPorts
      [] name = "DATABASE_CONN" -> e.DATABASE_CONN # "url"
      [] name = "DATABASE_IAM_AUTH_ENABLED" ->
            e.DATABASE_IAM_AUTH_ENABLED \in {NULL, Malformed}
      [] name = "CLOUDSQL_CONNECTION_NAME" ->
            /\ e.DATABASE_IAM_AUTH_ENABLED = "true"
            /\ e.CLOUDSQL_CONNECTION_NAME \in {NULL, Malformed}
      [] OTHER -> FALSE

(* What may fail although no variable is at fault. *)
Outside(e) ==
    {"pool", "listener"} \cup
        (IF e.DATABASE_IAM_AUTH_ENABLED = "true" THEN {"dialer"} ELSE {})

(* A process that does not start blames a variable that is at fault,       *)
(* whether config.go, pgx or net.Listen refused it, or a step that failed  *)
(* for a reason outside of them: never the ENV that config.parseEnv let    *)
(* pass and setupLogger has no case for, and never the dialer of an        *)
(* authentication that was not asked for (config.go:36-119, main.go:61-86, *)
(* db.go:17-50).                                                           *)
BlamesAFault == blamed # NULL => Faulty(env, blamed) \/ blamed \in Outside(env)

(* A process that serves does so on the port that was set and with the     *)
(* database that the chosen authentication is for; the one variable that   *)
(* may still be at fault is the name of the instance, which no step of the *)
(* startup looks at beyond its being there, so that every dial will fail   *)
(* (config.go:57-63, db.go:15-50, main.go:61).                             *)
ServesWhatWasSet ==
    step = "serve" =>
        /\ \A i \in DOMAIN Read :
            Faulty(env, Read[i]) =>
                Read[i] = "CLOUDSQL_CONNECTION_NAME" /\ target = Malformed
        /\ port = env.INTERNAL_PORT
        /\ target = IF env.DATABASE_IAM_AUTH_ENABLED = "true"
                    THEN env.CLOUDSQL_CONNECTION_NAME ELSE env.DATABASE_CONN
=============================================================================
