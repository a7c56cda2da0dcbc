----------------------------- MODULE TestDatabase -----------------------------
(***************************************************************************)
(* internal/repository/postgres/postgrestest: the PostgreSQL container of  *)
(* a package's tests, from RunMain's Start to its deferred Close, and the  *)
(* Truncate with which each test begins.                                   *)
(***************************************************************************)
EXTENDS Integers

CONSTANTS
    Tests,  \* the tests that use the database
    NULL

ASSUME NullAssumption ==
    NULL \notin Tests /\ NULL \notin {"startFailed", "testsRan", "panicked"}

VARIABLES
    pc,         \* how far RunMain is
    container,  \* "none", "running" or "terminated"
    ready,      \* how often the log says that the server is ready
    pool,       \* the connection pool
    borrowed,   \* the connections taken from it
    rows,       \* the tests whose rows are in the tables
    test,       \* the test that runs, or NULL
    ran,        \* the tests that have run
    faults,     \* what went wrong outside of this code
    exit        \* how the process ended, NULL while it runs

vars == <<pc, container, ready, pool, borrowed, rows, test, ran, faults, exit>>

Starting == {"repoRoot", "run", "wait", "dsn", "new", "schema"}
Testing == {"tests", "list", "scan", "truncate", "body"}
Stopping == {"undo", "close", "terminate", "fatal", "exit"}

Init ==
    /\ pc = "repoRoot" /\ container = "none" /\ ready = 0
    /\ pool = "none" /\ borrowed = 0 /\ rows = {}
    /\ test = NULL /\ ran = {} /\ faults = {} /\ exit = NULL

database == <<container, ready>>
progress == <<test, ran>>

Fault(what) == faults' = faults \cup {what}

Step(from, to) ==
    /\ pc = from
    /\ pc' = to
    /\ UNCHANGED <<faults, exit>>

Fail(from, what, to) ==
    /\ pc = from
    /\ pc' = to
    /\ Fault(what)
    /\ UNCHANGED exit

-----------------------------------------------------------------------------
(* The container: the image starts a server of its own to create the       *)
(* database, and then the one that listens.  Each logs that it is ready.   *)

ServerReady ==
    /\ container = "running" /\ ready < 2
    /\ ready' = ready + 1
    /\ UNCHANGED <<pc, container, pool, borrowed, rows, progress, faults, exit>>

Listening == container = "running" /\ ready = 2

-----------------------------------------------------------------------------
(* Start.                                                                  *)

repoRoot ==
    /\ Step("repoRoot", "run") \/ Fail("repoRoot", "root", "fatal")
    /\ UNCHANGED <<database, pool, borrowed, rows, progress>>

Run ==
    /\ \/ Step("run", "wait") /\ container' = "running"
       \/ Fail("run", "run", "fatal") /\ UNCHANGED container
    /\ UNCHANGED <<ready, pool, borrowed, rows, progress>>

(* Mutant: the first line is taken for the server's. *)
WaitForOne ==
    /\ \/ Step("wait", "dsn") /\ ready >= 1
       \/ Fail("wait", "wait", "fatal")
    /\ UNCHANGED <<database, pool, borrowed, rows, progress>>

(* After 60 seconds Run fails, with a container that nobody terminates.    *)
Wait ==
    /\ \/ Step("wait", "dsn") /\ ready >= 2
       \/ Fail("wait", "wait", "fatal")
    /\ UNCHANGED <<database, pool, borrowed, rows, progress>>

(* Mutant: return err, as the steps before do. *)
ConnectionStringLeaking ==
    /\ Step("dsn", "new") \/ Fail("dsn", "dsn", "fatal")
    /\ UNCHANGED <<database, pool, borrowed, rows, progress>>

ConnectionString ==
    /\ Step("dsn", "new") \/ Fail("dsn", "dsn", "undo")
    /\ UNCHANGED <<database, pool, borrowed, rows, progress>>

NewPool ==
    /\ \/ Step("new", "schema") /\ pool' = "open"
       \/ Fail("new", "pool", "undo") /\ UNCHANGED pool
    /\ UNCHANGED <<database, borrowed, rows, progress>>

(* db/schema.sql is read and sent.  Without a server that listens it fails *)
(* with no fault of anybody else.                                          *)
ApplySchema ==
    /\ \/ Step("schema", "tests") /\ Listening /\ UNCHANGED pool
       \/ Fail("schema", "schema", "undo") /\ pool' = "closed"
       \/ Step("schema", "undo") /\ ~Listening /\ pool' = "closed"
    /\ UNCHANGED <<database, borrowed, rows, progress>>

-----------------------------------------------------------------------------
(* m.Run: the tests, one after the other.                                  *)

BeginTest ==
    /\ Step("tests", "list")
    /\ \E t \in Tests \ ran : test' = t
    /\ UNCHANGED <<database, pool, borrowed, rows, ran>>

(* The end of a test, by its last line or t.Fatalf. *)
Over ==
    /\ ran' = ran \cup {test}
    /\ test' = NULL

(* The query for the names of the tables. *)
ListTables ==
    /\ \/ Step("list", "scan") /\ borrowed' = borrowed + 1 /\ UNCHANGED progress
       \/ Fail("list", "query", "tests") /\ Over /\ UNCHANGED borrowed
    /\ UNCHANGED <<database, pool, rows>>

(* Mutant: no deferred rows.Close(). *)
ScanTablesLeaking ==
    /\ \/ Step("scan", "truncate") /\ borrowed' = borrowed - 1 /\ UNCHANGED progress
       \/ Fail("scan", "query", "tests") /\ Over /\ UNCHANGED borrowed
    /\ UNCHANGED <<database, pool, rows>>

(* Its rows are closed at their end and on each way out of Truncate. *)
ScanTables ==
    /\ \/ Step("scan", "truncate") /\ UNCHANGED progress
       \/ Fail("scan", "query", "tests") /\ Over
    /\ borrowed' = borrowed - 1
    /\ UNCHANGED <<database, pool, rows>>

(* Mutant: t.Errorf, so that the test goes on. *)
TruncateGoingOn ==
    /\ \/ Step("truncate", "body") /\ rows' = {} /\ UNCHANGED progress
       \/ Fail("truncate", "query", "body") /\ UNCHANGED <<rows, progress>>
    /\ UNCHANGED <<database, pool, borrowed>>

Truncate ==
    /\ \/ Step("truncate", "body") /\ rows' = {} /\ UNCHANGED progress
       \/ Fail("truncate", "query", "tests") /\ Over /\ UNCHANGED rows
    /\ UNCHANGED <<database, pool, borrowed>>

(* Each INSERT of a test is committed by itself. *)
Insert ==
    /\ Step("body", "body")
    /\ rows' = rows \cup {test}
    /\ UNCHANGED <<database, pool, borrowed, progress>>

(* A panic in the goroutine of a test ends the process, and the deferred   *)
(* Close of RunMain with it.                                               *)
Panic ==
    /\ pc = "body"
    /\ pc' = "exit"
    /\ exit' = "panicked"
    /\ UNCHANGED <<database, pool, borrowed, rows, progress, faults>>

EndTest ==
    /\ Step("body", "tests")
    /\ Over
    /\ UNCHANGED <<database, pool, borrowed, rows>>

Finished ==
    /\ Step("tests", "close") /\ ran = Tests
    /\ UNCHANGED <<database, pool, borrowed, rows, progress>>

-----------------------------------------------------------------------------
(* Close, and the end of the process.                                      *)

(* pgxpool waits until every connection has come back. *)
ClosePool ==
    /\ Step("close", "terminate")
    /\ borrowed = 0
    /\ pool' = "closed"
    /\ UNCHANGED <<database, borrowed, rows, progress>>

(* An error is joined to Start's or logged. *)
Terminate ==
    /\ \E way \in {<<"undo", "fatal">>, <<"terminate", "exit">>} :
        \/ Step(way[1], way[2]) /\ container' = "terminated"
        \/ Fail(way[1], "terminate", way[2]) /\ UNCHANGED container
    /\ UNCHANGED <<ready, pool, borrowed, rows, progress>>

(* log.Fatalf runs no deferred call; os.Exit has the result of the tests.  *)
Exit ==
    /\ pc \in {"fatal", "exit"} /\ exit = NULL
    /\ exit' = IF pc = "fatal" THEN "startFailed" ELSE "testsRan"
    /\ UNCHANGED <<pc, database, pool, borrowed, rows, progress, faults>>

Start == repoRoot \/ Run \/ Wait \/ ConnectionString \/ NewPool \/ ApplySchema
Main == BeginTest \/ ListTables \/ ScanTables \/ Truncate \/ EndTest \/ Finished

Next ==
    \/ Start \/ Main \/ Insert \/ Panic \/ ClosePool \/ Terminate \/ Exit
    \/ ServerReady

Spec == Init /\ [][Next]_vars

(* RunMain goes on, waiting 60 seconds at most, and its tests end. *)
FairSpec ==
    /\ Spec
    /\ WF_vars(Start) /\ WF_vars(Main)
    /\ WF_vars(ClosePool) /\ WF_vars(Terminate) /\ WF_vars(Exit)

-----------------------------------------------------------------------------
(* Properties                                                              *)

(* The types of the variables. *)
TypeOK ==
    /\ pc \in Starting \cup Testing \cup Stopping
    /\ container \in {"none", "running", "terminated"}
    /\ ready \in 0..2
    /\ pool \in {"none", "open", "closed"}
    /\ borrowed \in 0..1
    /\ rows \subseteq Tests /\ ran \subseteq Tests
    /\ test \in Tests \cup {NULL}
    /\ faults \subseteq {"root", "run", "wait", "dsn", "pool", "schema",
                         "query", "terminate"}
    /\ exit \in {NULL, "startFailed", "testsRan", "panicked"}

(* The process leaves neither a container nor a pool behind, whichever     *)
(* step of Start or of a test failed, unless the container does not get    *)
(* ready in time, does not let itself be terminated, or a test panics      *)
(* (postgres.go:47-69, 76-81, 132-138).                                    *)
NothingLeftBehind ==
    exit \in {"startFailed", "testsRan"} =>
        /\ pool # "open"
        /\ container = "running" => faults \cap {"wait", "terminate"} # {}

(* Start fails only when something outside of it does: it does not talk to *)
(* the image's first server (postgres.go:41-45).                           *)
StartFailsForAReason == exit = "startFailed" => faults # {}

(* What a test finds in the tables it has put there itself, even after     *)
(* others that failed at any point (postgres.go:86-120).                   *)
TestsSeeTheirOwnRows == pc = "body" => rows \subseteq {test}

(* RunMain comes to its end: no test keeps a connection that Close waits   *)
(* for (postgres.go:77, 99, 132-138).                                      *)
RunMainEnds == <>(exit # NULL)
=============================================================================
