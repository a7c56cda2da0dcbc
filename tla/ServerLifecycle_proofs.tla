-------------------------- MODULE ServerLifecycle_proofs --------------------------
(***************************************************************************)
(* The safety properties of ServerLifecycle, for any number of             *)
(* connections, any size of the pool and any number of signals.            *)
(***************************************************************************)
EXTENDS ServerLifecycle, SequenceTheorems, TLAPS

(* The stack of deferred calls, as far as run has pushed it or popped it.  *)
OnlyCancel == <<"cancel">>
WithDialer == <<"closeDatabasePool", "cancel">>
WithPool == <<"pool.Close", "closeDatabasePool", "cancel">>

(* What run holds is what its deferred calls will release.                 *)
Holds ==
    /\ deferred \in {<<>>, OnlyCancel, WithDialer, WithPool}
    /\ phase = "exited" => deferred = <<>>
    /\ phase = "pool" => deferred = OnlyCancel
    /\ phase \in {"listen", "serve"} => deferred = WithPool
    /\ phase = "config" => deferred = <<>> /\ dialer = "none"
    /\ phase = "pool" => dialer \in {"none", IF auth = "iam" THEN "open" ELSE "none"}
    /\ deferred = WithPool <=> pool \in {"open", "closing"}
    /\ deferred \in {WithPool, WithDialer} => dialer = IF auth = "iam" THEN "open" ELSE "none"
    /\ dialer = "open" => phase = "pool" \/ deferred \in {WithPool, WithDialer}
    /\ listener = "open" => phase = "serve" /\ server # "returned"
    /\ server = "serving" /\ stopper # "new" => listener = "closed"

(* Where the two goroutines of serve are.                                  *)
Groups ==
    /\ phase \in {"config", "pool", "listen"} => server = "new" /\ stopper = "new"
    /\ phase \in {"unwind", "exited"} \/ pool \in {"closing", "closed"} =>
        \/ /\ server = "new" /\ stopper = "new"
           /\ exitCode # "0"
        \/ /\ server = "returned"
           /\ stopper \in {"returned", "timedOut"}
    /\ server = "serving" => phase = "serve"
    /\ phase \in {"listen", "serve"} => pool = "open"
    /\ stopper = "timedOut" => groupErr # "nil"
    /\ exitCode = "0" => groupErr = "nil" /\ stopper = "returned"

(* Where the handlers are: none before Serve; once Shutdown has returned,  *)
(* only those whose connection it closed.                                  *)
Handlers ==
    /\ \A r \in Requests : req[r] = "querying" => pool \in {"open", "closing"}
    /\ server = "new" => \A r \in Requests : req[r] = "none"
    /\ stopper = "returned" =>
        /\ server # "serving"
        /\ \A r \in Active \cup Idle : r \in cut

-----------------------------------------------------------------------------
(* Short sequences.                                                        *)
LEMMA OneCall == ASSUME NEW S, NEW x \in S PROVE <<x>> \in Seq(S)
OBVIOUS

LEMMA PushTwo == ASSUME NEW x, NEW y, NEW z PROVE <<x, y>> \o <<z>> = <<x, y, z>>
<1> DEFINE S == {x, y, z}
           s == <<x, y>>
           t == <<z>>
           u == <<x, y, z>>
<1>1. s \in Seq(S) /\ t \in Seq(S) /\ u \in Seq(S)
  OBVIOUS
<1>2. Len(s) = 2 /\ Len(t) = 1 /\ Len(u) = 3
  OBVIOUS
<1>3. s[1] = x /\ s[2] = y /\ t[1] = z /\ u[1] = x /\ u[2] = y /\ u[3] = z
  OBVIOUS
<1> HIDE DEF s, t, u, S
<1>4. /\ s \o t \in Seq(S)
      /\ Len(s \o t) = Len(s) + Len(t)
      /\ \A i \in 1..(Len(s) + Len(t)) :
            (s \o t)[i] = IF i <= Len(s) THEN s[i] ELSE t[i - Len(s)]
  BY <1>1, ConcatProperties, Zenon
<1> DEFINE st == s \o t
<1> HIDE DEF st
<1>5. st \in Seq(S) /\ Len(st) = 3 /\ \A i \in 1..3 : st[i] = u[i]
  BY <1>2, <1>3, <1>4 DEF st
<1>6. st = u
  BY <1>1, <1>2, <1>5, SeqEqual
<1> QED  BY <1>6 DEF s, t, u, st

LEMMA InitTypeOK == Init => TypeOK
BY LifecycleAssumption DEF Init, TypeOK

LEMMA NextTypeOK == TypeOK /\ [Next]_vars => TypeOK'
<1> SUFFICES ASSUME TypeOK, [Next]_vars PROVE TypeOK'
  OBVIOUS
<1> USE LifecycleAssumption DEF TypeOK, resources, goroutines
<1>1. CASE LoadConfig
  <2>1. "cancel" \in Calls
    BY DEF Calls
  <2>2. deferred' = deferred \/ deferred' = <<"cancel">>
    BY <1>1 DEF LoadConfig
  <2>3. <<"cancel">> \in Seq(Calls)
    BY <2>1, OneCall, Zenon
  <2>4. deferred' \in Seq(Calls)
    BY <2>2, <2>3, Zenon DEF TypeOK
  <2>5. /\ phase' \in {"unwind", "pool"} /\ exitCode' \in {exitCode, "1"}
        /\ auth' \in {"iam", "password"}
        /\ UNCHANGED <<resources, ctx, signals, goroutines, req, cut>>
    BY <1>1 DEF LoadConfig, Return
  <2> QED  BY <2>4, <2>5
<1>2. CASE NewDialer
  BY <1>2 DEF NewDialer
<1>3. CASE NewPool
  <2>1. "pool.Close" \in Calls /\ "closeDatabasePool" \in Calls
    BY DEF Calls
  <2>2. <<"pool.Close", "closeDatabasePool">> \in Seq(Calls)
    BY <2>1
  <2>3. deferred' \in Seq(Calls)
    BY <1>3, <2>2 DEF NewPool
  <2> QED  BY <1>3, <2>3 DEF NewPool
<1>4. CASE NewPoolFails
  BY <1>4 DEF NewPoolFails, Return
<1>5. CASE Listen
  BY <1>5 DEF Listen, Return
<1>6. CASE Serve
  BY <1>6 DEF Serve, ShuttingDown
<1>7. CASE ServeFails
  BY <1>7 DEF ServeFails, ShuttingDown, Group
<1>8. CASE ServeEnds
  BY <1>8 DEF ServeEnds, ShuttingDown
<1>9. CASE Shutdown
  BY <1>9 DEF Shutdown
<1>10. CASE Poll
  BY <1>10 DEF Poll, Active, Idle, In
<1>11. CASE ShutdownTimesOut
  BY <1>11 DEF ShutdownTimesOut, Group
<1>12. CASE ServeReturns
  BY <1>12 DEF ServeReturns, Return
<1>13. CASE ClosePool
  BY <1>13 DEF ClosePool, Unwinding
<1>14. CASE PoolClosed
  BY <1>14 DEF PoolClosed, Unwinding, In
<1>15. CASE CloseDatabasePool
  BY <1>15 DEF CloseDatabasePool, Unwinding
<1>16. CASE Cancel
  BY <1>16 DEF Cancel, Unwinding
<1>17. CASE Exit
  BY <1>17 DEF Exit, Die, Active, In
<1>18. CASE Signal
  <2>1. signals' \in 0..MaxSignals
    BY <1>18 DEF Signal
  <2> QED  BY <1>18, <2>1 DEF Signal, Die
<1>19. ASSUME NEW r \in Requests, Connect(r) \/ ReadRequest(r) \/ Handler(r)
      PROVE  TypeOK'
  BY <1>19 DEF Connect, ReadRequest, Handler, StartHandler, Acquire, PoolRefuses, QueryEnds, Move
<1>20. CASE UNCHANGED vars
  BY <1>20 DEF vars
<1> QED
  BY <1>1, <1>2, <1>3, <1>4, <1>5, <1>6, <1>7, <1>8, <1>9, <1>10, <1>11,
     <1>12, <1>13, <1>14, <1>15, <1>16, <1>17, <1>18, <1>19, <1>20
     DEF Next, Startup, ServerStep, StopperStep, Unwind

(* Every variable keeps its type.                                          *)
THEOREM TypeCorrect == Spec => []TypeOK
BY InitTypeOK, NextTypeOK, PTL DEF Spec

-----------------------------------------------------------------------------
(* What the steps do to the stack of deferred calls.                       *)
LEMMA Stack ==
    /\ <<"pool.Close", "closeDatabasePool">> \o OnlyCancel = WithPool
    /\ Head(WithPool) = "pool.Close" /\ Tail(WithPool) = WithDialer
    /\ Head(WithDialer) = "closeDatabasePool" /\ Tail(WithDialer) = OnlyCancel
    /\ Head(OnlyCancel) = "cancel" /\ Tail(OnlyCancel) = <<>>
    /\ WithPool # WithDialer /\ WithPool # OnlyCancel /\ WithDialer # OnlyCancel
    /\ WithPool # <<>> /\ WithDialer # <<>> /\ OnlyCancel # <<>>
<1> USE DEF WithPool, WithDialer, OnlyCancel
<1>1. <<"pool.Close", "closeDatabasePool">> \o OnlyCancel = WithPool
  BY PushTwo, Zenon
<1>2. Head(WithPool) = "pool.Close" /\ Tail(WithPool) = WithDialer
  OBVIOUS
<1>3. Head(WithDialer) = "closeDatabasePool" /\ Tail(WithDialer) = OnlyCancel
  OBVIOUS
<1>4. Head(OnlyCancel) = "cancel" /\ Tail(OnlyCancel) = <<>>
  OBVIOUS
<1>5. Len(WithPool) = 3 /\ Len(WithDialer) = 2 /\ Len(OnlyCancel) = 1 /\ Len(<<>>) = 0
  OBVIOUS
<1> HIDE DEF WithPool, WithDialer, OnlyCancel
<1>6. /\ WithPool # WithDialer /\ WithPool # OnlyCancel /\ WithDialer # OnlyCancel
      /\ WithPool # <<>> /\ WithDialer # <<>> /\ OnlyCancel # <<>>
  BY <1>5
<1> QED  BY <1>1, <1>2, <1>3, <1>4, <1>6

(* Signals are caught as long as cancel is on the stack.                   *)
LEMMA CaughtOnStack == deferred \in {OnlyCancel, WithDialer, WithPool} => Caught
<1>1. \A s : s = OnlyCancel => "cancel" = s[1] /\ 1 \in DOMAIN s
  BY DEF OnlyCancel
<1>2. \A s : s = WithDialer => "cancel" = s[2] /\ 2 \in DOMAIN s
  BY DEF WithDialer
<1>3. \A s : s = WithPool => "cancel" = s[3] /\ 3 \in DOMAIN s
  BY DEF WithPool
<1> QED  BY <1>1, <1>2, <1>3 DEF Caught, ToSet

Held == Holds /\ Groups

LEMMA InitHeld == Init => Held
BY Stack DEF Init, Held, Holds, Groups

LEMMA NextHeld == TypeOK /\ Held /\ [Next]_vars => Held'
<1> SUFFICES ASSUME TypeOK, Held, [Next]_vars PROVE Held'
  OBVIOUS
<1> USE Stack DEF TypeOK, Held, Holds, Groups, resources, goroutines
<1>1. CASE LoadConfig
  BY <1>1 DEF LoadConfig, Return, OnlyCancel
<1>2. CASE NewDialer
  BY <1>2 DEF NewDialer
<1>3. CASE NewPool
  <2>1. deferred' = WithPool
    BY <1>3 DEF NewPool
  <2>2. /\ pool' = "open" /\ phase = "pool" /\ phase' = "listen"
        /\ auth = "iam" => dialer = "open"
        /\ UNCHANGED <<exitCode, auth, dialer, listener, groupErr, server, stopper>>
    BY <1>3 DEF NewPool
  <2> QED  BY <2>1, <2>2
<1>4. CASE NewPoolFails
  BY <1>4 DEF NewPoolFails, Return
<1>5. CASE Listen
  BY <1>5 DEF Listen, Return
<1>6. CASE Serve
  BY <1>6 DEF Serve, ShuttingDown
<1>7. CASE ServeFails
  BY <1>7 DEF ServeFails, ShuttingDown, Group
<1>8. CASE ServeEnds
  BY <1>8 DEF ServeEnds, ShuttingDown
<1>9. CASE Shutdown
  BY <1>9 DEF Shutdown
<1>10. CASE Poll
  BY <1>10 DEF Poll, Active, Idle, In
<1>11. CASE ShutdownTimesOut
  BY <1>11 DEF ShutdownTimesOut, Group
<1>12. CASE ServeReturns
  BY <1>12 DEF ServeReturns, Return
<1>13. CASE ClosePool
  BY <1>13 DEF ClosePool, Unwinding
<1>14. CASE PoolClosed
  BY <1>14 DEF PoolClosed, Unwinding, In
<1>15. CASE CloseDatabasePool
  BY <1>15 DEF CloseDatabasePool, Unwinding
<1>16. CASE Cancel
  BY <1>16 DEF Cancel, Unwinding
<1>17. CASE Exit
  BY <1>17 DEF Exit, Die, Active, In
<1>18. CASE Signal
  BY <1>18, CaughtOnStack DEF Signal, Die
<1>19. ASSUME NEW r \in Requests, Connect(r) \/ ReadRequest(r) \/ Handler(r)
      PROVE  Held'
  BY <1>19 DEF Connect, ReadRequest, Handler, StartHandler, Acquire, PoolRefuses, QueryEnds, Move
<1>20. CASE UNCHANGED vars
  BY <1>20 DEF vars
<1> QED
  BY <1>1, <1>2, <1>3, <1>4, <1>5, <1>6, <1>7, <1>8, <1>9, <1>10, <1>11,
     <1>12, <1>13, <1>14, <1>15, <1>16, <1>17, <1>18, <1>19, <1>20
     DEF Next, Startup, ServerStep, StopperStep, Unwind

-----------------------------------------------------------------------------
(* The handlers.                                                           *)

LEMMA InitHandlers == Init => Handlers
BY DEF Init, Handlers, Active, Idle, In

LEMMA NextHandlers == TypeOK /\ Held /\ Handlers /\ [Next]_vars => Handlers'
<1> SUFFICES ASSUME TypeOK, Held, Handlers, [Next]_vars PROVE Handlers'
  OBVIOUS
<1> USE DEF TypeOK, Held, Holds, Groups, Handlers, Active, Idle, In, resources, goroutines
<1>1. CASE LoadConfig
  BY <1>1 DEF LoadConfig, Return
<1>2. CASE NewDialer
  BY <1>2 DEF NewDialer
<1>3. CASE NewPool
  BY <1>3 DEF NewPool
<1>4. CASE NewPoolFails
  BY <1>4 DEF NewPoolFails, Return
<1>5. CASE Listen
  BY <1>5 DEF Listen, Return
<1>6. CASE Serve
  BY <1>6 DEF Serve, ShuttingDown
<1>7. CASE ServeFails
  BY <1>7 DEF ServeFails, ShuttingDown, Group
<1>8. CASE ServeEnds
  BY <1>8 DEF ServeEnds, ShuttingDown
<1>9. CASE Shutdown
  BY <1>9 DEF Shutdown
<1>10. CASE Poll
  BY <1>10 DEF Poll
<1>11. CASE ShutdownTimesOut
  BY <1>11 DEF ShutdownTimesOut, Group
<1>12. CASE ServeReturns
  BY <1>12 DEF ServeReturns, Return
<1>13. CASE ClosePool
  BY <1>13 DEF ClosePool, Unwinding
<1>14. CASE PoolClosed
  BY <1>14 DEF PoolClosed, Unwinding
<1>15. CASE CloseDatabasePool
  BY <1>15 DEF CloseDatabasePool, Unwinding
<1>16. CASE Cancel
  BY <1>16 DEF Cancel, Unwinding
<1>17. CASE Exit
  BY <1>17 DEF Exit, Die
<1>18. CASE Signal
  BY <1>18 DEF Signal, Die
<1>19. ASSUME NEW r \in Requests, Connect(r) \/ ReadRequest(r) \/ Handler(r)
      PROVE  Handlers'
  BY <1>19 DEF Connect, ReadRequest, Handler, StartHandler, Acquire, PoolRefuses,
             QueryEnds, Move
<1>20. CASE UNCHANGED vars
  BY <1>20 DEF vars
<1> QED
  BY <1>1, <1>2, <1>3, <1>4, <1>5, <1>6, <1>7, <1>8, <1>9, <1>10, <1>11,
     <1>12, <1>13, <1>14, <1>15, <1>16, <1>17, <1>18, <1>19, <1>20
     DEF Next, Startup, ServerStep, StopperStep, Unwind

(* A refused handler: its connection was closed by Shutdown, or Shutdown   *)
(* ran out of time.                                                        *)
LEMMA NextRefused ==
    TypeOK /\ Held /\ Handlers /\ RefusedOnlyAfterTimeout /\ [Next]_vars
        => RefusedOnlyAfterTimeout'
<1> SUFFICES ASSUME TypeOK, Held, Handlers, RefusedOnlyAfterTimeout, [Next]_vars
             PROVE  RefusedOnlyAfterTimeout'
  OBVIOUS
<1> USE DEF TypeOK, Held, Groups, Handlers, Active, In, RefusedOnlyAfterTimeout,
            resources, goroutines
<1>1. CASE LoadConfig
  BY <1>1 DEF LoadConfig, Return
<1>2. CASE NewDialer
  BY <1>2 DEF NewDialer
<1>3. CASE NewPool
  BY <1>3 DEF NewPool
<1>4. CASE NewPoolFails
  BY <1>4 DEF NewPoolFails, Return
<1>5. CASE Listen
  BY <1>5 DEF Listen, Return
<1>6. CASE Serve
  BY <1>6 DEF Serve, ShuttingDown
<1>7. CASE ServeFails
  BY <1>7 DEF ServeFails, ShuttingDown, Group
<1>8. CASE ServeEnds
  BY <1>8 DEF ServeEnds, ShuttingDown
<1>9. CASE Shutdown
  BY <1>9 DEF Shutdown
<1>10. CASE Poll
  BY <1>10 DEF Poll
<1>11. CASE ShutdownTimesOut
  BY <1>11 DEF ShutdownTimesOut, Group
<1>12. CASE ServeReturns
  BY <1>12 DEF ServeReturns, Return
<1>13. CASE ClosePool
  BY <1>13 DEF ClosePool, Unwinding
<1>14. CASE PoolClosed
  BY <1>14 DEF PoolClosed, Unwinding
<1>15. CASE CloseDatabasePool
  BY <1>15 DEF CloseDatabasePool, Unwinding
<1>16. CASE Cancel
  BY <1>16 DEF Cancel, Unwinding
<1>17. CASE Exit
  BY <1>17 DEF Exit, Die
<1>18. CASE Signal
  BY <1>18 DEF Signal, Die
<1>19. ASSUME NEW r \in Requests, Connect(r) \/ ReadRequest(r) \/ Handler(r)
      PROVE  RefusedOnlyAfterTimeout'
  BY <1>19 DEF Connect, ReadRequest, Handler, StartHandler, Acquire, PoolRefuses,
             QueryEnds, Move
<1>20. CASE UNCHANGED vars
  BY <1>20 DEF vars
<1> QED
  BY <1>1, <1>2, <1>3, <1>4, <1>5, <1>6, <1>7, <1>8, <1>9, <1>10, <1>11,
     <1>12, <1>13, <1>14, <1>15, <1>16, <1>17, <1>18, <1>19, <1>20
     DEF Next, Startup, ServerStep, StopperStep, Unwind

(* A killed handler of a process that exits with 0: likewise.              *)
KilledOnlyIfCut ==
    phase = "exited" /\ exitCode = "0" =>
        \A r \in Requests : req[r] = "killed" => r \in cut

Survived == phase # "exited" => \A r \in Requests : req[r] # "killed"

LEMMA NextKilled ==
    TypeOK /\ Held /\ Handlers /\ Survived /\ KilledOnlyIfCut /\ [Next]_vars
        => Survived' /\ KilledOnlyIfCut'
<1> SUFFICES ASSUME TypeOK, Held, Handlers, Survived, KilledOnlyIfCut, [Next]_vars
             PROVE  (Survived /\ KilledOnlyIfCut)'
  OBVIOUS
<1> USE DEF TypeOK, Held, Groups, Handlers, Active, In, Survived, KilledOnlyIfCut,
            resources, goroutines
<1>1. CASE LoadConfig
  BY <1>1 DEF LoadConfig, Return
<1>2. CASE NewDialer
  BY <1>2 DEF NewDialer
<1>3. CASE NewPool
  BY <1>3 DEF NewPool
<1>4. CASE NewPoolFails
  BY <1>4 DEF NewPoolFails, Return
<1>5. CASE Listen
  BY <1>5 DEF Listen, Return
<1>6. CASE Serve
  BY <1>6 DEF Serve, ShuttingDown
<1>7. CASE ServeFails
  BY <1>7 DEF ServeFails, ShuttingDown, Group
<1>8. CASE ServeEnds
  BY <1>8 DEF ServeEnds, ShuttingDown
<1>9. CASE Shutdown
  BY <1>9 DEF Shutdown
<1>10. CASE Poll
  BY <1>10 DEF Poll
<1>11. CASE ShutdownTimesOut
  BY <1>11 DEF ShutdownTimesOut, Group
<1>12. CASE ServeReturns
  BY <1>12 DEF ServeReturns, Return
<1>13. CASE ClosePool
  BY <1>13 DEF ClosePool, Unwinding
<1>14. CASE PoolClosed
  BY <1>14 DEF PoolClosed, Unwinding
<1>15. CASE CloseDatabasePool
  BY <1>15 DEF CloseDatabasePool, Unwinding
<1>16. CASE Cancel
  BY <1>16 DEF Cancel, Unwinding
<1>17. CASE Exit
  BY <1>17 DEF Exit, Die
<1>18. CASE Signal
  BY <1>18 DEF Signal, Die
<1>19. ASSUME NEW r \in Requests, Connect(r) \/ ReadRequest(r) \/ Handler(r)
      PROVE  (Survived /\ KilledOnlyIfCut)'
  BY <1>19 DEF Connect, ReadRequest, Handler, StartHandler, Acquire, PoolRefuses,
             QueryEnds, Move
<1>20. CASE UNCHANGED vars
  BY <1>20 DEF vars
<1> QED
  BY <1>1, <1>2, <1>3, <1>4, <1>5, <1>6, <1>7, <1>8, <1>9, <1>10, <1>11,
     <1>12, <1>13, <1>14, <1>15, <1>16, <1>17, <1>18, <1>19, <1>20
     DEF Next, Startup, ServerStep, StopperStep, Unwind

-----------------------------------------------------------------------------
LInv ==
    /\ TypeOK /\ Held /\ Handlers
    /\ RefusedOnlyAfterTimeout /\ Survived /\ KilledOnlyIfCut

LEMMA Inductive == Spec => []LInv
<1>1. Init => LInv
  BY InitTypeOK, InitHeld, InitHandlers
     DEF LInv, Init, RefusedOnlyAfterTimeout, Survived, KilledOnlyIfCut
<1>2. LInv /\ [Next]_vars => LInv'
  BY NextTypeOK, NextHeld, NextHandlers, NextRefused, NextKilled DEF LInv
<1> QED  BY <1>1, <1>2, PTL DEF Spec

(* A statement in flight never loses the pool or the dialer under it.      *)
THEOREM QueriesKeepResources == Spec => []QueryKeepsResources
<1>1. LInv => QueryKeepsResources
  BY DEF LInv, Held, Holds, Handlers, QueryKeepsResources
<1> QED  BY <1>1, Inductive, PTL

(* No handler with a client is refused by a closed pool while Shutdown is  *)
(* within its time.                                                        *)
THEOREM RefusalsFollowTimeouts == Spec => []RefusedOnlyAfterTimeout
<1>1. LInv => RefusedOnlyAfterTimeout
  BY DEF LInv
<1> QED  BY <1>1, Inductive, PTL

(* Exit status 0 tells that every awaited request was answered.            *)
THEOREM ZeroMeansDrained == Spec => []ExitZeroMeansDrained
<1>1. LInv => ExitZeroMeansDrained
  BY DEF LInv, Held, Groups, RefusedOnlyAfterTimeout, KilledOnlyIfCut,
         ExitZeroMeansDrained
<1> QED  BY <1>1, Inductive, PTL

(* Whatever way run returns, pool, dialer and listener are closed.         *)
THEOREM EverythingReleased == Spec => []ReleasedAtExit
<1>1. LInv => ReleasedAtExit
  BY Stack DEF LInv, TypeOK, Held, Holds, ReleasedAtExit
<1> QED  BY <1>1, Inductive, PTL

-----------------------------------------------------------------------------
(* Nobody waits for a server that is gone.                                 *)

(* Whoever stops, or has stopped, was told to; the group's context does    *)
(* not come back.                                                          *)
Told ==
    /\ stopper # "new" => gCtxDone
    /\ phase = "serve" /\ server = "returned" => gCtxDone
    /\ phase = "serve" /\ listener = "closed" => gCtxDone
    /\ phase = "listen" => listener # "closed"
    /\ phase \in {"config", "pool"} => listener = "none"

LEMMA NextTold == TypeOK /\ Held /\ Told /\ [Next]_vars => Told'
<1> SUFFICES ASSUME TypeOK, Held, Told, [Next]_vars PROVE Told'
  OBVIOUS
<1> USE DEF Told, gCtxDone, resources, goroutines
<1>1. CASE LoadConfig
  BY <1>1 DEF LoadConfig, Return
<1>2. CASE NewDialer
  BY <1>2 DEF NewDialer
<1>3. CASE NewPool
  BY <1>3 DEF NewPool
<1>4. CASE NewPoolFails
  BY <1>4 DEF NewPoolFails, Return
<1>5. CASE Listen
  BY <1>5 DEF Listen, Return, Held, Groups
<1>6. CASE Serve
  BY <1>6 DEF Serve, ShuttingDown
<1>7. CASE ServeFails
  BY <1>7 DEF ServeFails, Group, Held, Groups
<1>8. CASE ServeEnds
  BY <1>8 DEF ServeEnds, ShuttingDown
<1>9. CASE Shutdown
  BY <1>9 DEF Shutdown
<1>10. CASE Poll
  BY <1>10 DEF Poll
<1>11. CASE ShutdownTimesOut
  BY <1>11 DEF ShutdownTimesOut, Group, TypeOK
<1>12. CASE ServeReturns
  BY <1>12 DEF ServeReturns, Return
<1>13. CASE Unwind
  BY <1>13 DEF Unwind, ClosePool, PoolClosed, CloseDatabasePool, Cancel, Exit, Die,
               Unwinding
<1>14. CASE Signal
  BY <1>14 DEF Signal, Die
<1>15. ASSUME NEW r \in Requests, Connect(r) \/ ReadRequest(r) \/ Handler(r)
      PROVE  Told'
  BY <1>15 DEF Connect, ReadRequest, Handler, StartHandler, Acquire, PoolRefuses,
             QueryEnds, Move
<1>16. CASE UNCHANGED vars
  BY <1>16 DEF vars
<1> QED
  BY <1>1, <1>2, <1>3, <1>4, <1>5, <1>6, <1>7, <1>8, <1>9, <1>10, <1>11,
     <1>12, <1>13, <1>14, <1>15, <1>16 DEF Next, Startup, ServerStep, StopperStep

(* A process that stays up serves: whatever ends Serve ends the group's    *)
(* context (main.go:118-136).                                              *)
THEOREM StaysUpServing == Spec => []UpMeansServing
<1>1. Init => TypeOK /\ Held /\ Told
  BY InitTypeOK, InitHeld DEF Init, Told
<1>2. TypeOK /\ Held /\ Told /\ [Next]_vars => (TypeOK /\ Held /\ Told)'
  BY NextTypeOK, NextHeld, NextTold
<1>3. Told => UpMeansServing
  BY DEF Told, UpMeansServing
<1> QED  BY <1>1, <1>2, <1>3, PTL DEF Spec

-----------------------------------------------------------------------------
(* A process that stops is not stuck.                                      *)

(* The guards of the next step of whoever can move: a goroutine of serve,  *)
(* g.Wait, or the deferred calls.                                          *)
ServeMoves ==
    /\ phase = "serve"
    /\ \/ server = "new" \/ stopper = "new"
       \/ server = "serving" /\ ShuttingDown
       \/ server # "serving" /\ stopper \in {"draining", "polling"}
       \/ server = "returned" /\ stopper \in {"returned", "timedOut"}

UnwindMoves ==
    /\ phase = "unwind"
    /\ \/ deferred = <<>>
       \/ Unwinding("cancel") \/ Unwinding("closeDatabasePool")
       \/ Unwinding("pool.Close") /\ pool = "open"
       \/ Unwinding("pool.Close") /\ pool = "closing" /\ In({"querying"}) = {}

(* Told to stop, or returning from run, the process can always take the    *)
(* next step or waits for statements in flight alone: the goroutines of    *)
(* serve do not wait for each other, and no deferred call finds its        *)
(* resource gone (main.go:42-49, 116-137).  The safety half of             *)
(* StopTerminates.                                                         *)
THEOREM StopIsNotStuck ==
    Spec => []((phase = "serve" /\ gCtxDone) \/ phase = "unwind"
                    => ServeMoves \/ UnwindMoves \/ In({"querying"}) # {})
<1> DEFINE Q == (phase = "serve" /\ gCtxDone) \/ phase = "unwind"
                    => ServeMoves \/ UnwindMoves \/ In({"querying"}) # {}
<1>1. LInv => Q
  <2> SUFFICES ASSUME LInv, In({"querying"}) = {}
               PROVE  /\ phase = "serve" => ServeMoves
                      /\ phase = "unwind" => UnwindMoves
    OBVIOUS
  <2>1. phase = "serve" => ServeMoves
    BY DEF LInv, TypeOK, ServeMoves, ShuttingDown
  <2>2. ASSUME phase = "unwind" PROVE UnwindMoves
    <3>1. CASE deferred = <<>>
      BY <2>2, <3>1 DEF UnwindMoves
    <3>2. CASE deferred = WithPool
      BY <2>2, <3>2, Stack DEF UnwindMoves, Unwinding, LInv, Held, Holds
    <3>3. CASE deferred \in {WithDialer, OnlyCancel}
      BY <2>2, <3>3, Stack DEF UnwindMoves, Unwinding
    <3> QED  BY <3>1, <3>2, <3>3 DEF LInv, Held, Holds
  <2> QED  BY <2>1, <2>2
<1> QED  BY <1>1, Inductive, PTL
=============================================================================
