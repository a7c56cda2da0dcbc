------------------------- MODULE StartupConfig_proofs -------------------------
(***************************************************************************)
(* The safety properties of StartupConfig, for any set of ports.           *)
(***************************************************************************)
EXTENDS StartupConfig, TLAPS

(* What Listen will have found out: nothing that FromEnv checks is refused. *)
Accepted(e) ==
    /\ e.ENV \in {"local", "staging", "production"}
    /\ e.INTERNAL_PORT \in Ports
    /\ e.DATABASE_CONN # NULL
    /\ e.DATABASE_IAM_AUTH_ENABLED \in {"true", "false"}
    /\ e.DATABASE_IAM_AUTH_ENABLED = "true" => e.CLOUDSQL_CONNECTION_NAME # NULL

(* What Listen requires on top of that. *)
Usable(e) ==
    Accepted(e) /\ e.DATABASE_CONN = "url" /\ e.INTERNAL_PORT \in TCPPorts

(* What run knows of the environment at each of its steps. *)
KnownAtEachStep ==
    /\ step \in {"setupLogger", "newDatabasePool", "listen", "serve"} =>
        Accepted(env) /\ cfg = Config(env)
    /\ step \in {"listen", "serve"} =>
        /\ env.DATABASE_CONN = "url"
        /\ target = IF env.DATABASE_IAM_AUTH_ENABLED = "true"
                    THEN env.CLOUDSQL_CONNECTION_NAME ELSE env.DATABASE_CONN
    /\ step = "serve" => port = env.INTERNAL_PORT /\ port \in TCPPorts

StartupInv == env \in Environment /\ KnownAtEachStep /\ BlamesAFault

-----------------------------------------------------------------------------
(* The getters.                                                            *)

LEMMA NothingRefused ==
    ASSUME NEW e \in Environment,
           \A i \in DOMAIN Read : ~Refused(e, Read[i])
    PROVE  Accepted(e)
BY DEF Read, Refused, Accepted, Environment, parseEnv, getRequiredInt,
       getRequiredString, getRequiredBool

LEMMA ReadNames ==
    ASSUME NEW i \in DOMAIN Read
    PROVE  Read[i] \in {"ENV", "INTERNAL_PORT", "DATABASE_CONN",
                       "DATABASE_IAM_AUTH_ENABLED", "CLOUDSQL_CONNECTION_NAME"}
BY DEF Read

(* What FromEnv refuses is at fault. *)
LEMMA RefusedIsFaulty ==
    ASSUME NEW e \in Environment, NEW i \in DOMAIN Read, Refused(e, Read[i])
    PROVE  Faulty(e, Read[i])
<1> DEFINE n == Read[i]
<1> HIDE DEF n
<1> SUFFICES Refused(e, n) => Faulty(e, n)
  BY DEF n
<1>1. CASE n = "ENV"
  BY <1>1, ValuesAssumption DEF Refused, Faulty, Environment, parseEnv
<1>2. CASE n = "INTERNAL_PORT"
  BY <1>2, ValuesAssumption DEF Refused, Faulty, Environment, getRequiredInt
<1>3. CASE n = "DATABASE_CONN"
  BY <1>3, ValuesAssumption DEF Refused, Faulty, Environment, getRequiredString
<1>4. CASE n = "DATABASE_IAM_AUTH_ENABLED"
  BY <1>4, ValuesAssumption DEF Refused, Faulty, Environment, getRequiredBool
<1>5. CASE n = "CLOUDSQL_CONNECTION_NAME"
  BY <1>5, ValuesAssumption DEF Refused, Faulty, Environment, getRequiredString
<1> QED  BY <1>1, <1>2, <1>3, <1>4, <1>5, ReadNames DEF n

(* What FromEnv accepts can only be found faulty later in a connection     *)
(* string that pgx does not parse, a port that net.Listen refuses, or the  *)
(* name of an instance.                                                    *)
LEMMA AcceptedIsSound ==
    ASSUME NEW e \in Environment, Usable(e), NEW i \in DOMAIN Read,
           Faulty(e, Read[i])
    PROVE  /\ Read[i] = "CLOUDSQL_CONNECTION_NAME"
           /\ e.DATABASE_IAM_AUTH_ENABLED = "true"
           /\ e.CLOUDSQL_CONNECTION_NAME = Malformed
<1> DEFINE n == Read[i]
<1> HIDE DEF n
<1> SUFFICES ASSUME Faulty(e, n)
             PROVE  /\ n = "CLOUDSQL_CONNECTION_NAME"
                    /\ e.DATABASE_IAM_AUTH_ENABLED = "true"
                    /\ e.CLOUDSQL_CONNECTION_NAME = Malformed
  BY DEF n
<1> USE DEF Usable
<1>1. CASE n = "ENV"
  BY <1>1, ValuesAssumption DEF Faulty, Accepted
<1>2. CASE n = "INTERNAL_PORT"
  BY <1>2 DEF Faulty, Accepted
<1>3. CASE n = "DATABASE_CONN"
  BY <1>3 DEF Faulty
<1>4. CASE n = "DATABASE_IAM_AUTH_ENABLED"
  BY <1>4, ValuesAssumption DEF Faulty, Accepted
<1>5. CASE n = "CLOUDSQL_CONNECTION_NAME"
  BY <1>5 DEF Faulty, Accepted
<1> QED  BY <1>1, <1>2, <1>3, <1>4, <1>5, ReadNames DEF n

(* The Config of an environment, field by field. *)
LEMMA ConfigOf ==
    ASSUME NEW e
    PROVE  /\ Config(e).Env = e.ENV
           /\ Config(e).InternalPort = e.INTERNAL_PORT
           /\ Config(e).DatabaseConn = e.DATABASE_CONN
           /\ Config(e).DatabaseIAMAuthEnabled <=> e.DATABASE_IAM_AUTH_ENABLED = "true"
           /\ Config(e).DatabaseIAMAuthEnabled =>
                Config(e).CloudSQLConnectionName = e.CLOUDSQL_CONNECTION_NAME
BY Zenon DEF Config

-----------------------------------------------------------------------------
(* The steps of run.                                                       *)

LEMMA InitStartup == Init => StartupInv
BY DEF Init, StartupInv, KnownAtEachStep, BlamesAFault

LEMMA NextStartup == StartupInv /\ [Next]_vars => StartupInv'
<1> SUFFICES ASSUME StartupInv, [Next]_vars PROVE StartupInv'
  OBVIOUS
<1> USE DEF StartupInv
<1>1. ASSUME FromEnv PROVE StartupInv'
  <2> DEFINE refused == {i \in DOMAIN Read : Refused(env, Read[i])}
  <2>1. CASE refused = {} /\ Go("setupLogger") /\ cfg' = Config(env)
    <3>1. Accepted(env)
      BY <2>1, NothingRefused
    <3> QED  BY <1>1, <2>1, <3>1 DEF FromEnv, Go, KnownAtEachStep, BlamesAFault
  <2>2. ASSUME NEW i \in refused, Fail(Read[i]), UNCHANGED cfg
        PROVE  StartupInv'
    <3>1. Faulty(env, Read[i])
      BY RefusedIsFaulty
    <3> QED  BY <1>1, <2>2, <3>1 DEF FromEnv, Fail, KnownAtEachStep, BlamesAFault
  <2> QED  BY <1>1, <2>1, <2>2 DEF FromEnv
<1>2. ASSUME setupLogger PROVE StartupInv'
  <2>1. cfg.Env \in {"production", "staging", "local"}
    BY <1>2, ConfigOf DEF setupLogger, KnownAtEachStep, Accepted
  <2> QED  BY <1>2, <2>1 DEF setupLogger, Go, KnownAtEachStep, BlamesAFault
<1>3. ASSUME newDatabasePool PROVE StartupInv'
  <2>1. /\ Accepted(env) /\ cfg = Config(env)
        /\ env.DATABASE_CONN \in {NULL, Malformed, "url"}
    BY <1>3 DEF newDatabasePool, KnownAtEachStep, Environment
  <2>2. CASE cfg.DatabaseConn = Malformed /\ Fail("DATABASE_CONN")
    <3>1. Faulty(env, "DATABASE_CONN")
      BY <2>1, <2>2, ConfigOf, ValuesAssumption DEF Faulty
    <3> QED  BY <1>3, <2>2, <3>1 DEF newDatabasePool, Fail, KnownAtEachStep, BlamesAFault
  <2>3. CASE DialerFails \/ PoolFails
    <3>1. step' = "exit" /\ blamed' \in Outside(env)
      BY <2>1, <2>3, ConfigOf DEF DialerFails, PoolFails, Fail, Outside
    <3> QED  BY <1>3, <3>1 DEF newDatabasePool, KnownAtEachStep, BlamesAFault
  <2>4. CASE cfg.DatabaseConn # Malformed /\ Go("listen")
    <3>1. target' = IF cfg.DatabaseIAMAuthEnabled
                    THEN cfg.CloudSQLConnectionName ELSE cfg.DatabaseConn
      BY <1>3, <2>4 DEF newDatabasePool, NoPool, DialerFails, PoolFails, Fail, Go
    <3> QED
      BY <1>3, <2>1, <2>4, <3>1, ConfigOf
      DEF newDatabasePool, Go, Accepted, KnownAtEachStep, BlamesAFault
  <2> QED  BY <1>3, <2>2, <2>3, <2>4 DEF newDatabasePool, NoPool
<1>4. ASSUME Listen PROVE StartupInv'
  <2>1. cfg.InternalPort = env.INTERNAL_PORT
    BY <1>4, ConfigOf DEF Listen, KnownAtEachStep
  <2>2. CASE cfg.InternalPort \in TCPPorts /\ Go("serve") /\ port' = cfg.InternalPort
    BY <1>4, <2>1, <2>2 DEF Listen, Go, KnownAtEachStep, BlamesAFault
  <2>3. CASE ListenerFails
    <3>1. step' = "exit" /\ blamed' \in Outside(env)
      BY <2>3 DEF ListenerFails, Fail, Outside
    <3> QED  BY <1>4, <3>1 DEF Listen, KnownAtEachStep, BlamesAFault
  <2>4. CASE cfg.InternalPort \notin TCPPorts /\ Fail("INTERNAL_PORT")
    <3>1. Faulty(env, "INTERNAL_PORT")
      BY <2>1, <2>4 DEF Faulty
    <3> QED  BY <1>4, <2>4, <3>1 DEF Listen, Fail, KnownAtEachStep, BlamesAFault
  <2> QED  BY <1>4, <2>2, <2>3, <2>4 DEF Listen
<1>5. CASE UNCHANGED vars
  BY <1>5 DEF vars, KnownAtEachStep, BlamesAFault
<1> QED  BY <1>1, <1>2, <1>3, <1>4, <1>5 DEF Next

LEMMA StartupInductive == Spec => []StartupInv
BY InitStartup, NextStartup, PTL DEF Spec

(* A process that does not start blames a variable that is at fault, or a  *)
(* step that fails for a reason outside of them (config.go:36-119,         *)
(* main.go:61-86, db.go:17-50).                                            *)
THEOREM BlameIsJust == Spec => []BlamesAFault
BY StartupInductive, PTL DEF StartupInv

(* A process that serves does so on the port and with the database that    *)
(* were set, and with nothing at fault but, perhaps, the name of its       *)
(* instance (config.go:57-63, db.go:15-50, main.go:61).                    *)
THEOREM ServesAsSet == Spec => []ServesWhatWasSet
<1>1. StartupInv => ServesWhatWasSet
  <2>1. StartupInv /\ step = "serve" => env \in Environment /\ Usable(env)
    BY DEF StartupInv, KnownAtEachStep, Usable
  <2> QED  BY <2>1, AcceptedIsSound DEF StartupInv, KnownAtEachStep, ServesWhatWasSet
<1> QED  BY StartupInductive, <1>1, PTL
=============================================================================
