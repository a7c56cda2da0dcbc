------------------------- MODULE TestDatabase_proofs -------------------------
(***************************************************************************)
(* The safety properties of TestDatabase, for any tests.                   *)
(***************************************************************************)
EXTENDS TestDatabase, TLAPS

(* There is nothing to give back, or it was a fault that kept it from      *)
(* being given back.                                                       *)
CleanedUp ==
    /\ pool # "open"
    /\ container = "running" => faults \cap {"wait", "terminate"} # {}

(* The container runs from Run until one of the two calls of Terminate,    *)
(* and its server listens from Wait on.                                    *)
ContainerInv ==
    /\ pc \in {"repoRoot", "run"} => container = "none"
    /\ pc \in {"wait", "dsn", "new", "schema", "undo", "close", "terminate"} \cup Testing
        => container = "running"
    /\ pc \in {"dsn", "new", "schema"} \cup Testing => ready = 2

(* The pool is open from NewPool to its Close, by RunMain or by a Start    *)
(* that fails, and a connection is out while Truncate reads rows.          *)
PoolInv ==
    /\ pc \in {"repoRoot", "run", "wait", "dsn", "new"} => pool = "none"
    /\ pc \in {"undo", "terminate"} => pool # "open"
    /\ borrowed = IF pc = "scan" THEN 1 ELSE 0

(* A test is under way, on tables that only it has written to. *)
TestInv ==
    /\ pc \in {"list", "scan", "truncate", "body"} => test \in Tests
    /\ TestsSeeTheirOwnRows

(* How the process comes to its end. *)
EndInv ==
    /\ pc \in {"undo", "fatal"} => faults # {}
    /\ pc = "fatal" => CleanedUp
    /\ pc = "exit" => CleanedUp \/ exit = "panicked"
    /\ exit = "startFailed" => pc = "fatal"
    /\ exit # NULL => pc \in {"fatal", "exit"}

DatabaseInv == TypeOK /\ ContainerInv /\ PoolInv /\ TestInv /\ EndInv

-----------------------------------------------------------------------------
LEMMA InitDatabase == Init => DatabaseInv
BY NullAssumption
DEF Init, DatabaseInv, TypeOK, ContainerInv, PoolInv, TestInv, EndInv,
    TestsSeeTheirOwnRows, Starting, Testing, Stopping

LEMMA NextDatabase == DatabaseInv /\ [Next]_vars => DatabaseInv'
<1> SUFFICES ASSUME DatabaseInv, [Next]_vars PROVE DatabaseInv'
  OBVIOUS
<1> USE DEF DatabaseInv, TypeOK, ContainerInv, PoolInv, TestInv, EndInv,
            TestsSeeTheirOwnRows, CleanedUp, Starting, Testing, Stopping,
            Step, Fail, Fault, database, progress
<1>1. CASE repoRoot
  BY <1>1 DEF repoRoot
<1>2. CASE Run
  BY <1>2 DEF Run
<1>3. CASE Wait
  <2>1. CASE Step("wait", "dsn") /\ ready >= 2
    BY <1>3, <2>1 DEF Wait
  <2>2. CASE Fail("wait", "wait", "fatal")
    BY <1>3, <2>2 DEF Wait
  <2> QED  BY <1>3, <2>1, <2>2 DEF Wait
<1>4. CASE ConnectionString
  BY <1>4 DEF ConnectionString
<1>5. CASE NewPool
  BY <1>5 DEF NewPool
<1>6. CASE ApplySchema
  BY <1>6 DEF ApplySchema, Listening
<1>7. CASE BeginTest
  BY <1>7 DEF BeginTest
<1>8. CASE ListTables
  <2>1. CASE Step("list", "scan")
    BY <1>8, <2>1 DEF ListTables
  <2>2. CASE Fail("list", "query", "tests") /\ Over
    BY <1>8, <2>2 DEF ListTables, Over
  <2> QED  BY <1>8, <2>1, <2>2 DEF ListTables
<1>9. CASE ScanTables
  <2>1. CASE Step("scan", "truncate")
    BY <1>9, <2>1 DEF ScanTables
  <2>2. CASE Fail("scan", "query", "tests") /\ Over
    BY <1>9, <2>2 DEF ScanTables, Over
  <2> QED  BY <1>9, <2>1, <2>2 DEF ScanTables
<1>10. CASE Truncate
  BY <1>10 DEF Truncate, Over
<1>11. CASE EndTest
  BY <1>11 DEF EndTest, Over
<1>12. CASE Finished
  BY <1>12 DEF Finished
<1>13. CASE Insert
  BY <1>13 DEF Insert
<1>14. CASE Panic
  BY <1>14 DEF Panic
<1>15. CASE ClosePool
  BY <1>15 DEF ClosePool
<1>16. CASE Terminate
  <2>1. \/ Step("undo", "fatal") /\ container' = "terminated"
        \/ Fail("undo", "terminate", "fatal") /\ UNCHANGED container
        \/ Step("terminate", "exit") /\ container' = "terminated"
        \/ Fail("terminate", "terminate", "exit") /\ UNCHANGED container
    <3>1. PICK way \in {<<"undo", "fatal">>, <<"terminate", "exit">>} :
            \/ Step(way[1], way[2]) /\ container' = "terminated"
            \/ Fail(way[1], "terminate", way[2]) /\ UNCHANGED container
      BY <1>16, Zenon DEF Terminate
    <3>2. \/ way[1] = "undo" /\ way[2] = "fatal"
          \/ way[1] = "terminate" /\ way[2] = "exit"
      OBVIOUS
    <3> QED  BY <3>1, <3>2
  <2>2. CASE Step("undo", "fatal") /\ container' = "terminated"
    BY <1>16, <2>2 DEF Terminate
  <2>3. CASE Fail("undo", "terminate", "fatal") /\ UNCHANGED container
    BY <1>16, <2>3 DEF Terminate
  <2>4. CASE Step("terminate", "exit") /\ container' = "terminated"
    BY <1>16, <2>4 DEF Terminate
  <2>5. CASE Fail("terminate", "terminate", "exit") /\ UNCHANGED container
    BY <1>16, <2>5 DEF Terminate
  <2> QED  BY <2>1, <2>2, <2>3, <2>4, <2>5
<1>17. CASE Exit
  BY <1>17, NullAssumption DEF Exit
<1>18. CASE ServerReady
  BY <1>18 DEF ServerReady
<1>19. CASE UNCHANGED vars
  BY <1>19 DEF vars
<1> QED
  BY <1>1, <1>2, <1>3, <1>4, <1>5, <1>6, <1>7, <1>8, <1>9, <1>10, <1>11, <1>12,
     <1>13, <1>14, <1>15, <1>16, <1>17, <1>18, <1>19 DEF Next, Start, Main

LEMMA DatabaseInductive == Spec => []DatabaseInv
BY InitDatabase, NextDatabase, PTL DEF Spec

-----------------------------------------------------------------------------
(* The variables keep their types: no connection but the one of Truncate's *)
(* query is ever out (postgres.go:86-120).                                 *)
THEOREM TypeCorrect == Spec => []TypeOK
BY DatabaseInductive, PTL DEF DatabaseInv

(* A process that ends without a panic leaves neither pool nor container   *)
(* behind, but for a container that was not ready in time or would not be  *)
(* terminated (postgres.go:47-69, 76-81, 132-138).                         *)
THEOREM EverythingTakenDown == Spec => []NothingLeftBehind
<1>1. DatabaseInv => NothingLeftBehind
  BY NullAssumption DEF DatabaseInv, EndInv, CleanedUp, NothingLeftBehind
<1> QED  BY DatabaseInductive, <1>1, PTL

(* Start fails for a fault outside of it: the server that it sends the     *)
(* schema to is the one that listens (postgres.go:41-45).                  *)
THEOREM FailuresHaveReason == Spec => []StartFailsForAReason
<1>1. DatabaseInv => StartFailsForAReason
  BY DEF DatabaseInv, EndInv, StartFailsForAReason
<1> QED  BY DatabaseInductive, <1>1, PTL

(* A test finds no rows but its own, whatever became of the tests before   *)
(* it (postgres.go:86-120).                                                *)
THEOREM OwnRowsOnly == Spec => []TestsSeeTheirOwnRows
BY DatabaseInductive, PTL DEF DatabaseInv, TestInv
=============================================================================
