---------------------------- MODULE ServerLifecycle ----------------------------
(***************************************************************************)
(* The process of cmd/server from main to exit: what run acquires and the  *)
(* order its deferred calls release it in, the two goroutines of serve,    *)
(* the signals, and the handlers that are in flight meanwhile.             *)
(*                                                                         *)
(* A request is one connection carrying one request.  Its handler is the   *)
(* part AnnouncementService details; here it waits for the pool, queries   *)
(* and answers.                                                            *)
(***************************************************************************)
EXTENDS Integers, Sequences, FiniteSets, SequencesExt

CONSTANTS
    Requests,    \* connections clients make
    MaxConns,    \* connections of the pool
    MaxSignals   \* bound: SIGINT or SIGTERM delivered

ASSUME LifecycleAssumption ==
    /\ IsFiniteSet(Requests)
    /\ MaxConns \in Nat \ {0}
    /\ MaxSignals \in Nat

VARIABLES
    phase,     \* where the main goroutine is in run
    deferred,  \* the stack of run's deferred calls, next to run first
    exitCode,  \* what main will exit with; "signal" when a signal kills it
    auth,      \* cfg.DatabaseIAMAuthEnabled: "iam" or "password"
    dialer,    \* the Cloud SQL dialer, only with IAM authentication
    pool,      \* the pgxpool; "closing" once Close has begun
    listener,  \* the TCP listener
    ctx,       \* the NotifyContext: "live" or "cancelled"
    signals,   \* signals delivered so far (for the bound)
    groupErr,  \* the first error of the errgroup
    server,    \* serve's first goroutine: http.Server.Serve
    stopper,   \* serve's second goroutine: wait, then http.Server.Shutdown
    req,       \* the state of each connection and its handler
    cut        \* connections Shutdown closed because they were idle

resources == <<dialer, pool, listener>>
goroutines == <<groupErr, server, stopper>>
vars == <<phase, deferred, exitCode, auth, resources, ctx, signals,
          goroutines, req, cut>>

Calls == {"cancel", "closeDatabasePool", "pool.Close"}

TypeOK ==
    /\ phase \in {"config", "pool", "listen", "serve", "unwind", "exited"}
    /\ deferred \in Seq(Calls)
    /\ exitCode \in {"none", "0", "1", "signal"}
    /\ auth \in {"iam", "password"}
    /\ dialer \in {"none", "open", "closed"}
    /\ pool \in {"none", "open", "closing", "closed"}
    /\ listener \in {"none", "open", "closed"}
    /\ ctx \in {"live", "cancelled"}
    /\ signals \in 0..MaxSignals
    /\ groupErr \in {"nil", "serve", "shutdown"}
    /\ server \in {"new", "serving", "returned"}
    /\ stopper \in {"new", "draining", "polling", "returned", "timedOut"}
    /\ req \in [Requests -> {"none", "idle", "read", "queued", "querying",
                             "answered", "refused", "killed"}]
    /\ cut \subseteq Requests

Init ==
    /\ phase = "config"
    /\ deferred = <<>>
    /\ exitCode = "none"
    /\ auth = "password"
    /\ dialer = "none" /\ pool = "none" /\ listener = "none"
    /\ ctx = "live"
    /\ signals = 0
    /\ groupErr = "nil"
    /\ server = "new" /\ stopper = "new"
    /\ req = [r \in Requests |-> "none"]
    /\ cut = {}

In(states) == {r \in Requests : req[r] \in states}

(* net/http: StateActive, from the end of the request's header to the      *)
(* answer; and the rest of the open connections, which it calls idle.      *)
Active == In({"queued", "querying"})
Idle == In({"idle", "read"})

-----------------------------------------------------------------------------
(* run, as far as serve.                                                   *)

(* return err: the deferred calls follow. *)
Return(code) ==
    /\ phase' = "unwind"
    /\ exitCode' = code

(* FromEnv and setupLogger: nothing is held yet.  A missing or malformed   *)
(* variable ends the process; otherwise signals are caught from here on.   *)
LoadConfig ==
    /\ phase = "config"
    /\ \/ /\ Return("1")
          /\ UNCHANGED <<deferred, auth>>
       \/ /\ phase' = "pool"
          /\ auth' \in {"iam", "password"}
          /\ deferred' = <<"cancel">>
          /\ UNCHANGED exitCode
    /\ UNCHANGED <<resources, ctx, signals, goroutines, req, cut>>

(* newDatabasePoolWithIAMAuth: the dialer comes before the pool. *)
NewDialer ==
    /\ phase = "pool" /\ auth = "iam" /\ dialer = "none"
    /\ dialer' = "open"
    /\ UNCHANGED <<phase, deferred, exitCode, auth, pool, listener, ctx,
                   signals, goroutines, req, cut>>

(* Mutant: pool.Close deferred before the dialer's. *)
NewPoolDefersSwapped ==
    /\ phase = "pool" /\ (auth = "iam" => dialer = "open")
    /\ pool' = "open"
    /\ deferred' = <<"closeDatabasePool", "pool.Close">> \o deferred
    /\ phase' = "listen"
    /\ UNCHANGED <<exitCode, auth, dialer, listener, ctx, signals,
                   goroutines, req, cut>>

(* pgxpool.New, or NewWithConfig: no connection is made, so an unreachable *)
(* database does not show here.                                            *)
NewPool ==
    /\ phase = "pool" /\ (auth = "iam" => dialer = "open")
    /\ pool' = "open"
    /\ deferred' = <<"pool.Close", "closeDatabasePool">> \o deferred
    /\ phase' = "listen"
    /\ UNCHANGED <<exitCode, auth, dialer, listener, ctx, signals,
                   goroutines, req, cut>>

(* Mutant: NewWithConfig's failure leaves the dialer to run. *)
NewPoolFailsLeaking ==
    /\ phase = "pool"
    /\ Return("1")
    /\ UNCHANGED <<deferred, auth, resources, ctx, signals, goroutines,
                   req, cut>>

(* Bad connection string, no credentials, or NewWithConfig refused: the    *)
(* last closes the dialer itself, for run has not deferred it.             *)
NewPoolFails ==
    /\ phase = "pool"
    /\ dialer' = IF dialer = "open" THEN "closed" ELSE dialer
    /\ Return("1")
    /\ UNCHANGED <<deferred, auth, pool, listener, ctx, signals,
                   goroutines, req, cut>>

Listen ==
    /\ phase = "listen"
    /\ \/ /\ listener' = "open"
          /\ phase' = "serve"
          /\ UNCHANGED exitCode
       \/ /\ Return("1")
          /\ UNCHANGED listener
    /\ UNCHANGED <<deferred, auth, dialer, pool, ctx, signals, goroutines,
                   req, cut>>

-----------------------------------------------------------------------------
(* serve: an errgroup of two goroutines.                                   *)

(* Mutant: the stopper watches run's context and not the group's. *)
signalled == ctx = "cancelled"

gCtxDone == ctx = "cancelled" \/ groupErr # "nil"

ShuttingDown == stopper # "new"

Group(err) == groupErr' = IF groupErr = "nil" THEN err ELSE groupErr

(* http.Server.Serve: refuses to start once Shutdown was called. *)
Serve ==
    /\ phase = "serve" /\ server = "new"
    /\ IF ShuttingDown
       THEN server' = "returned" /\ listener' = "closed"
       ELSE server' = "serving" /\ UNCHANGED listener
    /\ UNCHANGED <<phase, deferred, exitCode, auth, dialer, pool, ctx,
                   signals, groupErr, stopper, req, cut>>

(* Mutant: the goroutine logs the error of Serve and returns nil. *)
ServeFailsUnnoticed ==
    /\ server = "serving" /\ ~ShuttingDown
    /\ server' = "returned"
    /\ listener' = "closed"
    /\ UNCHANGED <<phase, deferred, exitCode, auth, dialer, pool, ctx,
                   signals, groupErr, stopper, req, cut>>

(* Accept fails for good: the error ends the group's context. *)
ServeFails ==
    /\ server = "serving" /\ ~ShuttingDown
    /\ server' = "returned"
    /\ listener' = "closed"
    /\ Group("serve")
    /\ UNCHANGED <<phase, deferred, exitCode, auth, dialer, pool, ctx,
                   signals, stopper, req, cut>>

(* ErrServerClosed, which is no error here. *)
ServeEnds ==
    /\ server = "serving" /\ ShuttingDown
    /\ server' = "returned"
    /\ UNCHANGED <<phase, deferred, exitCode, auth, resources, ctx, signals,
                   groupErr, stopper, req, cut>>

(* The second goroutine wakes and Shutdown closes the listeners it knows.  *)
Shutdown ==
    /\ phase = "serve" /\ stopper = "new" /\ gCtxDone
    /\ stopper' = "draining"
    /\ listener' = IF server = "serving" THEN "closed" ELSE listener
    /\ UNCHANGED <<phase, deferred, exitCode, auth, dialer, pool, ctx,
                   signals, groupErr, server, req, cut>>

(* Shutdown waits for Serve to be out, then closes idle connections until  *)
(* no other is left.                                                       *)
Poll ==
    /\ stopper \in {"draining", "polling"} /\ server # "serving"
    /\ cut' = cut \cup Idle
    /\ stopper' = IF Active = {} THEN "returned" ELSE "polling"
    /\ UNCHANGED <<phase, deferred, exitCode, auth, resources, ctx, signals,
                   groupErr, server, req>>

(* Mutant: Shutdown's error is dropped. *)
ShutdownTimesOutSilently ==
    /\ stopper = "polling"
    /\ stopper' = "timedOut"
    /\ UNCHANGED <<phase, deferred, exitCode, auth, resources, ctx, signals,
                   groupErr, server, req, cut>>

(* Ten seconds are over between two polls. *)
ShutdownTimesOut ==
    /\ stopper = "polling"
    /\ stopper' = "timedOut"
    /\ Group("shutdown")
    /\ UNCHANGED <<phase, deferred, exitCode, auth, resources, ctx, signals,
                   server, req, cut>>

(* Mutant: serve returns with http.Server.Serve. *)
ServeReturnsEarly ==
    /\ phase = "serve"
    /\ server = "returned"
    /\ Return(IF groupErr = "nil" THEN "0" ELSE "1")
    /\ UNCHANGED <<deferred, auth, resources, ctx, signals, goroutines,
                   req, cut>>

(* g.Wait: both goroutines, not the first. *)
ServeReturns ==
    /\ phase = "serve"
    /\ server = "returned"
    /\ stopper \in {"returned", "timedOut"}
    /\ Return(IF groupErr = "nil" THEN "0" ELSE "1")
    /\ UNCHANGED <<deferred, auth, resources, ctx, signals, goroutines,
                   req, cut>>

-----------------------------------------------------------------------------
(* The deferred calls, last in first out, then os.Exit.                    *)

Unwinding(call) == phase = "unwind" /\ deferred # <<>> /\ Head(deferred) = call

(* pool.Close begins: waiting and later acquires fail ... *)
ClosePool ==
    /\ Unwinding("pool.Close") /\ pool = "open"
    /\ pool' = "closing"
    /\ UNCHANGED <<phase, deferred, exitCode, auth, dialer, listener, ctx,
                   signals, goroutines, req, cut>>

(* ... and it returns when every connection has come back: no time limit.  *)
PoolClosed ==
    /\ Unwinding("pool.Close") /\ pool = "closing"
    /\ In({"querying"}) = {}
    /\ pool' = "closed"
    /\ deferred' = Tail(deferred)
    /\ UNCHANGED <<phase, exitCode, auth, dialer, listener, ctx, signals,
                   goroutines, req, cut>>

CloseDatabasePool ==
    /\ Unwinding("closeDatabasePool")
    /\ dialer' = IF auth = "iam" THEN "closed" ELSE dialer
    /\ deferred' = Tail(deferred)
    /\ UNCHANGED <<phase, exitCode, auth, pool, listener, ctx, signals,
                   goroutines, req, cut>>

(* cancel stops catching signals. *)
Cancel ==
    /\ Unwinding("cancel")
    /\ ctx' = "cancelled"
    /\ deferred' = Tail(deferred)
    /\ UNCHANGED <<phase, exitCode, auth, resources, signals, goroutines, req, cut>>

(* The process ends under whatever handlers still run. *)
Die ==
    /\ phase' = "exited"
    /\ req' = [r \in Requests |-> IF r \in Active THEN "killed" ELSE req[r]]

Exit ==
    /\ phase = "unwind" /\ deferred = <<>>
    /\ Die
    /\ UNCHANGED <<deferred, exitCode, auth, resources, ctx, signals,
                   goroutines, cut>>

-----------------------------------------------------------------------------
(* SIGINT or SIGTERM.  Caught from NotifyContext to cancel: the first ends *)
(* the context, further ones do nothing.  Otherwise it is fatal.           *)

Caught == "cancel" \in ToSet(deferred)

Signal ==
    /\ phase # "exited" /\ signals < MaxSignals
    /\ signals' = signals + 1
    /\ \/ /\ Caught
          /\ ctx' = "cancelled"
          /\ UNCHANGED <<phase, exitCode, req>>
       \/ /\ ~Caught
          /\ Die
          /\ exitCode' = "signal"
          /\ UNCHANGED ctx
    /\ UNCHANGED <<deferred, auth, resources, goroutines, cut>>

-----------------------------------------------------------------------------
(* Connections and handlers.                                               *)

Move(r, from, to) ==
    /\ phase # "exited"
    /\ req[r] = from
    /\ req' = [req EXCEPT ![r] = to]
    /\ UNCHANGED <<phase, deferred, exitCode, auth, resources, ctx, signals,
                   goroutines, cut>>

Connect(r) == server = "serving" /\ listener = "open" /\ Move(r, "none", "idle")

(* The header has been read, but the connection is not yet marked active:  *)
(* Shutdown may still close it, and the handler runs nevertheless.         *)
ReadRequest(r) == r \notin cut /\ Move(r, "idle", "read")

StartHandler(r) == Move(r, "read", "queued")

Acquire(r) ==
    /\ pool = "open" /\ Cardinality(In({"querying"})) < MaxConns
    /\ Move(r, "queued", "querying")

(* ErrClosedPool: the handler answers 500. *)
PoolRefuses(r) == pool \in {"closing", "closed"} /\ Move(r, "queued", "refused")

QueryEnds(r) == Move(r, "querying", "answered")

-----------------------------------------------------------------------------
Startup == LoadConfig \/ NewDialer \/ NewPool \/ NewPoolFails \/ Listen

Unwind == ClosePool \/ PoolClosed \/ CloseDatabasePool \/ Cancel \/ Exit

ServerStep == Serve \/ ServeEnds
StopperStep == Shutdown \/ Poll \/ ShutdownTimesOut

Handler(r) == StartHandler(r) \/ Acquire(r) \/ PoolRefuses(r) \/ QueryEnds(r)

Next ==
    \/ Startup \/ ServerStep \/ ServeFails \/ StopperStep \/ ServeReturns
    \/ Unwind \/ Signal
    \/ \E r \in Requests : Connect(r) \/ ReadRequest(r) \/ Handler(r)

Spec == Init /\ [][Next]_vars

(* The scheduler runs every goroutine that can move, the ten seconds pass, *)
(* and the database answers the statements in flight.                      *)
Fairness ==
    /\ WF_vars(Startup) /\ WF_vars(ServerStep) /\ WF_vars(StopperStep)
    /\ WF_vars(ServeReturns) /\ WF_vars(Unwind)
    /\ \A r \in Requests : WF_vars(Handler(r))

FairSpec == Spec /\ Fairness

-----------------------------------------------------------------------------
(* Properties                                                              *)

(* A statement in flight has its pool and its dialer under it: whatever    *)
(* ends run, and however long a handler outlives Shutdown, the deferred    *)
(* calls take them away in the right order (main.go:48-49).                *)
QueryKeepsResources ==
    \A r \in Requests : req[r] = "querying" =>
        /\ pool \in {"open", "closing"}
        /\ dialer = IF auth = "iam" THEN "open" ELSE "none"

(* No handler whose client still listens is refused by a closed pool: the  *)
(* pool outlives them all, unless Shutdown gave up (main.go:129-137).      *)
RefusedOnlyAfterTimeout ==
    \A r \in Requests : req[r] = "refused" => r \in cut \/ stopper = "timedOut"

(* Status 0 means that every request a client could await was answered: a  *)
(* handler cut short shows in the exit status (main.go:26-29, 131-133).    *)
ExitZeroMeansDrained ==
    phase = "exited" /\ exitCode = "0" =>
        \A r \in Requests : req[r] \in {"refused", "killed"} => r \in cut

(* Every way out of run, the failures of each step of the startup          *)
(* included, has closed what it opened (main.go:42-49, db.go:46-50).       *)
ReleasedAtExit ==
    phase = "exited" /\ exitCode # "signal" =>
        /\ pool \in {"none", "closed"}
        /\ dialer \in {"none", "closed"}
        /\ listener \in {"none", "closed"}

(* A process that stays up serves: once Serve is out or has lost its       *)
(* listener, whatever ended it, the goroutine that would wait for a signal *)
(* is told to stop the rest (main.go:118-136).                             *)
UpMeansServing ==
    phase = "serve" /\ (server = "returned" \/ listener = "closed") => gCtxDone

(* A signal, at any moment after it is caught, and a failed Serve both     *)
(* lead to the end of the process (main.go:116-137).                       *)
StopTerminates == (ctx = "cancelled" \/ groupErr # "nil") ~> (phase = "exited")
=============================================================================
