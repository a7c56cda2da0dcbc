----------------------------- MODULE SupportClient -----------------------------
(***************************************************************************)
(* packages/api-support: calls of the Go client against the service of     *)
(* AnnouncementService, over connections that may break.                   *)
(*                                                                         *)
(* A call sends one request; when a connection that was kept from an       *)
(* earlier request breaks, net/http sends the request once more, while the *)
(* handler of the first may still be running.                              *)
(***************************************************************************)
EXTENDS AnnouncementService

CONSTANT Calls  \* the calls of a behaviour

VARIABLES
    attempts,  \* the requests sent for a call, the current one last
    outcome,   \* what a call returned; NULL before
    broken     \* the requests whose connection is broken or closed

client == <<attempts, outcome, broken>>
clientVars == <<client, vars>>

-----------------------------------------------------------------------------
INSTANCE ClientResults

Outcome == [err : Errors, items : Seq(Row)]

-----------------------------------------------------------------------------
(* Calls.                                                                  *)

InFlight(c) == attempts[c] # <<>> /\ outcome[c] = NULL
Current(c) == attempts[c][Len(attempts[c])]

ClientInit ==
    /\ Init
    /\ attempts = [c \in Calls |-> <<>>]
    /\ outcome = [c \in Calls |-> NULL]
    /\ broken = {}

(* What the client can ask for: its ids are int64. *)
Request(c, r) ==
    /\ ServeHealth(r) \/ RejectLang(r) \/ StartList(r) \/ StartDetail(r)
    /\ attempts' = [attempts EXCEPT ![c] = Append(@, r)]
    /\ UNCHANGED <<outcome, broken>>

Send(c) ==
    /\ attempts[c] = <<>> /\ outcome[c] = NULL
    /\ \E r \in Requests : Request(c, r)

Return(c, result) == outcome' = [outcome EXCEPT ![c] = result]

(* No connection, a request editor's error, a context that has ended. *)
SendFails(c) ==
    /\ attempts[c] = <<>> /\ outcome[c] = NULL
    /\ Return(c, Failed)
    /\ UNCHANGED <<attempts, broken, vars>>

(* Mutant: an answer of an attempt that was given up counts as well. *)
ReceiveFromAny(c) ==
    /\ InFlight(c)
    /\ \E i \in DOMAIN attempts[c] :
        /\ pc[attempts[c][i]] = "done"
        /\ Return(c, Result(status[attempts[c][i]], Body(items[attempts[c][i]])))
    /\ UNCHANGED <<attempts, broken, vars>>

Receive(c) ==
    /\ InFlight(c) /\ Current(c) \notin broken
    /\ pc[Current(c)] = "done"
    /\ Return(c, Result(status[Current(c)], Body(items[Current(c)])))
    /\ UNCHANGED <<attempts, broken, vars>>

Break(c) ==
    /\ InFlight(c) /\ Current(c) \notin broken
    /\ broken' = broken \cup {Current(c)}
    /\ UNCHANGED <<attempts, outcome, vars>>

(* A GET on a connection that had been used before, and no byte of the     *)
(* answer yet: the transport sends it again.                               *)
Retry(c) ==
    /\ InFlight(c) /\ Current(c) \in broken
    /\ \E r \in Requests : Request(c, r) /\ query'[r] = query[Current(c)]

GiveUp(c) ==
    /\ InFlight(c) /\ Current(c) \in broken
    /\ Return(c, Failed)
    /\ UNCHANGED <<attempts, broken, vars>>

(* The caller's context ends; the transport closes the connection. *)
Cancel(c) ==
    /\ InFlight(c)
    /\ Return(c, Failed)
    /\ broken' = broken \cup {Current(c)}
    /\ UNCHANGED <<attempts, vars>>

-----------------------------------------------------------------------------
(* The service, which learns of a broken connection in its own time.       *)
HandlerStep(r) ==
    /\ \/ Progress(r) \/ DialFails(r) \/ QueryFails(r)
       \/ AcquireCancelled(r) \/ QueryCancelled(r)
    /\ UNCHANGED client

Disconnected(r) == r \in broken /\ ClientGone(r) /\ UNCHANGED client

Environment == (Editor \/ Tick) /\ UNCHANGED client

ClientNext ==
    \/ \E c \in Calls :
        \/ Send(c) \/ SendFails(c) \/ Receive(c) \/ Break(c)
        \/ Retry(c) \/ GiveUp(c) \/ Cancel(c)
    \/ \E r \in Requests : HandlerStep(r) \/ Disconnected(r)
    \/ Environment

ClientSpec == ClientInit /\ [][ClientNext]_clientVars

(* Handlers move, the database answers, and keep-alive probes find a       *)
(* connection that is dead: the client itself has no timeout.              *)
ClientFairSpec ==
    /\ ClientSpec
    /\ \A r \in Requests : WF_clientVars(Progress(r) /\ UNCHANGED client)
    /\ \A c \in Calls : WF_clientVars(Receive(c)) /\ WF_clientVars(GiveUp(c))

-----------------------------------------------------------------------------
(* Properties                                                              *)

(* The types of the client's variables. *)
ClientTypeOK ==
    /\ attempts \in [Calls -> Seq(Requests)]
    /\ outcome \in [Calls -> Outcome \cup {NULL}]
    /\ broken \subseteq Requests

CallVersions(c) == UNION {Versions(attempts[c][i]) : i \in DOMAIN attempts[c]}
CallInstants(c) == UNION {Instants(attempts[c][i]) : i \in DOMAIN attempts[c]}
Asked(c) == query[Current(c)]
Returned(c, err) == outcome[c] # NULL /\ outcome[c].err = err

ResultTrue(c) ==
    Returned(c, "nil") =>
        /\ Asked(c).op = "list" =>
            \E d \in CallVersions(c), t \in CallInstants(c) :
                ToSet(outcome[c].items) = Listing(d, Asked(c).lang, t)
        /\ Asked(c).op = "detail" =>
            \E d \in CallVersions(c) :
                ToSet(outcome[c].items) = DetailRows(d, Asked(c).id, Asked(c).lang)

NotFoundTrue(c) ==
    Returned(c, "ErrNotFound") =>
        /\ Asked(c).op = "detail"
        /\ \E d \in CallVersions(c) :
            DetailRows(d, Asked(c).id, Asked(c).lang) = {}

BadRequestTrue(c) ==
    Returned(c, "ErrBadRequest") => Asked(c).lang \notin SupportedLangs

(* What a call returns is true of the tables as they were at some moment   *)
(* of the call, however often it was sent: its result, ErrNotFound, and    *)
(* ErrBadRequest for the languages the service does not have; and there is *)
(* no ErrUnauthorized (client.go:87-126).                                  *)
CallsTellTheTruth ==
    \A c \in Calls :
        /\ ResultTrue(c) /\ NotFoundTrue(c) /\ BadRequestTrue(c)
        /\ ~Returned(c, "ErrUnauthorized")

(* ErrInternalServer means that the service had a fault, in the handler    *)
(* that answered: its dial, statement or stream failed, or its rows hold a *)
(* stamp it cannot scan.  The 500 with which a handler ends that lost its  *)
(* client, waiting or inside its query, is never one that a call returns,  *)
(* although the call goes on with a second request (client.go:120-121,     *)
(* errors.go:19).                                                          *)
InternalErrorIsAFault ==
    \A c \in Calls :
        Returned(c, "ErrInternalServer") =>
            /\ Current(c) \notin gone
            /\ Current(c) \in faulted \/ Poisoned(Current(c))

(* An error without a sentinel is one the service has no status for:       *)
(* nothing was sent, the connection broke or the context ended, or what    *)
(* the service had to show has no JSON form, so that its 200 was empty     *)
(* (client.go:89-96, announcement_handler.go:34, 54).                      *)
UnnamedErrorHasCause ==
    \A c \in Calls :
        Returned(c, "other") =>
            \/ attempts[c] = <<>> \/ Current(c) \in broken
            \/ status[Current(c)] = 200 /\ Body(items[Current(c)]) = NULL

(* Every call that was sent returns, also when its second request has to   *)
(* wait for the connection that its first one still holds.                 *)
EveryCallReturns == \A c \in Calls : InFlight(c) ~> outcome[c] # NULL
=============================================================================
