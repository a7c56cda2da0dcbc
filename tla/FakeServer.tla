------------------------------ MODULE FakeServer ------------------------------
(***************************************************************************)
(* packages/api-support/apisupportserverfake: the server that consumers    *)
(* put in the place of the service in their tests, as the Go client sees   *)
(* it.  The test sets the Fn fields from its own goroutine, also while     *)
(* handlers run: the fields are exported, the mutex is not.                *)
(***************************************************************************)
EXTENDS ClientResults

CONSTANTS
    Calls,  \* the requests of a test
    Langs,  \* the languages it asks for: "supported", "other" or both
    Fns     \* the callbacks a test sets, each known by what it returns

(* A callback returns any int for a status, and a body, if not nil: one    *)
(* that the client can decode, or one that json cannot even encode.        *)
Bodies == {"json", "unencodable"}

ASSUME FakeAssumption ==
    /\ Fns \subseteq [code : Int, body : Bodies \cup {NULL}]
    /\ NULL \notin Bodies /\ NULL \notin Calls /\ NULL \notin Fns

VARIABLES
    field,    \* the Fn fields
    mu,       \* the call that holds the mutex, or NULL
    pc,       \* how far a call is
    asked,    \* its request
    fn,       \* the callback its handler has read
    answer,   \* the response; NULL before, and when there is none
    server,   \* the httptest.Server
    held      \* the values its field has had since the call began

vars == <<field, mu, pc, asked, fn, answer, server, held>>

Fields == {"ListAnnouncementsFn", "GetAnnouncementFn"}

(* The ids are those of a path: the handler has to parse them. *)
Request ==
    [op : {"health"}] \cup [op : {"list"}, lang : Langs] \cup
    [op : {"detail"}, lang : Langs, id : {"number", "text"}]

FieldOf(q) == IF q.op = "list" THEN "ListAnnouncementsFn" ELSE "GetAnnouncementFn"

Inside == {"locked", "unlocked", "calling"}

NewServer ==
    /\ field = [f \in Fields |-> NULL]
    /\ mu = NULL
    /\ pc = [c \in Calls |-> "idle"]
    /\ asked = [c \in Calls |-> NULL]
    /\ fn = [c \in Calls |-> NULL]
    /\ answer = [c \in Calls |-> NULL]
    /\ server = "open"
    /\ held = [c \in Calls |-> {}]

-----------------------------------------------------------------------------
(* Responses.                                                              *)

(* net/http's WriteHeader panics for what is no status.  One that informs  *)
(* goes out at once, and counts for nothing: the first Write after it, or  *)
(* the handler's return, sends a 200.                                      *)
IsStatus(code) == 100 <= code /\ code <= 999
Informs(code) == 100 <= code /\ code <= 199 /\ code # 101
Bodiless == {101, 204, 304}

(* A panic ends the connection without a response.  An Encode error is not *)
(* looked at: the status has gone out already.                             *)
writeJSON(status, body) ==
    LET sent == IF Informs(status) THEN 200 ELSE status
        has  == body = "json" /\ sent \notin Bodiless
    IN  IF IsStatus(status) THEN [code |-> sent, body |-> IF has THEN body ELSE NULL]
        ELSE NULL

NotFound == writeJSON(404, "json")

(* Mutant: a language that the service does not have is refused. *)
DefaultRefusing(q) ==
    IF q.lang = "other" THEN writeJSON(400, "json")
    ELSE IF q.op = "list" THEN writeJSON(200, "json") ELSE NotFound

(* What a handler answers while its field is nil, whatever the language.   *)
Default(q) == IF q.op = "list" THEN writeJSON(200, "json") ELSE NotFound

Finish(c, a) ==
    /\ pc' = [pc EXCEPT ![c] = "done"]
    /\ answer' = [answer EXCEPT ![c] = a]
    /\ fn' = [fn EXCEPT ![c] = NULL]
    /\ UNCHANGED <<field, asked, server, held>>

Move(c, to) ==
    /\ pc' = [pc EXCEPT ![c] = to]
    /\ UNCHANGED <<field, asked, answer, server, held>>

-----------------------------------------------------------------------------
(* The test.                                                               *)

Install(f, value) ==
    /\ field' = [field EXCEPT ![f] = value]
    /\ held' = [c \in Calls |->
                   IF pc[c] \notin {"idle", "done"} /\ FieldOf(asked[c]) = f
                   THEN held[c] \cup {value} ELSE held[c]]
    /\ UNCHANGED <<mu, pc, asked, fn, answer, server>>

Call(c, q) ==
    /\ pc[c] = "idle"
    /\ pc' = [pc EXCEPT ![c] = IF server = "open" THEN "sent" ELSE "done"]
    /\ asked' = [asked EXCEPT ![c] = q]
    /\ held' = [held EXCEPT ![c] = {field[FieldOf(q)]}]
    /\ UNCHANGED <<field, mu, fn, answer, server>>

Close ==
    /\ server = "open"
    /\ server' = "closing"
    /\ UNCHANGED <<field, mu, pc, asked, fn, answer, held>>

(* httptest waits for the requests that have reached their handlers. *)
Closed ==
    /\ server = "closing"
    /\ \A c \in Calls : pc[c] \notin Inside \cup {"sent"}
    /\ server' = "closed"
    /\ UNCHANGED <<field, mu, pc, asked, fn, answer, held>>

-----------------------------------------------------------------------------
(* The handlers.                                                           *)

(* Close cuts connections on which no request has been read yet. *)
CutOff(c) ==
    /\ pc[c] = "sent" /\ server = "closing"
    /\ Finish(c, NULL)
    /\ UNCHANGED mu

(* The mux has no route for /health. *)
NoRoute(c) ==
    /\ pc[c] = "sent" /\ asked[c].op = "health"
    /\ Finish(c, [code |-> 404, body |-> NULL])
    /\ UNCHANGED mu

Lock(c) ==
    /\ pc[c] = "sent" /\ asked[c].op # "health"
    /\ mu = NULL
    /\ mu' = c
    /\ Move(c, "locked")
    /\ UNCHANGED fn

(* Mutant: the mutex is kept until the callback has returned. *)
ReadKeepingTheLock(c) ==
    /\ pc[c] = "locked"
    /\ fn' = [fn EXCEPT ![c] = field[FieldOf(asked[c])]]
    /\ UNCHANGED mu
    /\ Move(c, "unlocked")

(* Mutant: one handler made from the other by copying. *)
ReadOther(c) ==
    /\ pc[c] = "locked"
    /\ fn' = [fn EXCEPT ![c] = field["ListAnnouncementsFn"]]
    /\ mu' = NULL
    /\ Move(c, "unlocked")

Read(c) ==
    /\ pc[c] = "locked"
    /\ fn' = [fn EXCEPT ![c] = field[FieldOf(asked[c])]]
    /\ mu' = NULL
    /\ Move(c, "unlocked")

Unparsable(q) == q.op = "detail" /\ q.id = "text"

(* No callback for an id that is no number, or when the field is nil. *)
Respond(c) ==
    /\ pc[c] = "unlocked"
    /\ IF Unparsable(asked[c]) THEN Finish(c, NotFound)
       ELSE IF fn[c] = NULL THEN Finish(c, Default(asked[c]))
       ELSE Move(c, "calling") /\ UNCHANGED fn
    /\ UNCHANGED mu

FnReturns(c) ==
    /\ pc[c] = "calling"
    /\ Finish(c, writeJSON(fn[c].code, fn[c].body))
    /\ UNCHANGED mu

Handler(c) == NoRoute(c) \/ Lock(c) \/ Read(c) \/ Respond(c)

Next ==
    \/ \E f \in Fields : \E value \in Fns \cup {NULL} : Install(f, value)
    \/ \E c \in Calls : \E q \in Request : Call(c, q)
    \/ Close \/ Closed
    \/ \E c \in Calls : CutOff(c) \/ Handler(c) \/ FnReturns(c)

Spec == NewServer /\ [][Next]_vars

(* Handlers run and Close goes on; a callback may block for ever. *)
FairSpec ==
    /\ Spec
    /\ WF_vars(Closed)
    /\ \A c \in Calls : WF_vars(Handler(c))

-----------------------------------------------------------------------------
(* Properties                                                              *)

Response == [code : Nat, body : {"json", NULL}]

(* The types of the fake server's state. *)
TypeOK ==
    /\ field \in [Fields -> Fns \cup {NULL}]
    /\ mu \in Calls \cup {NULL}
    /\ pc \in [Calls -> {"idle", "sent", "done"} \cup Inside]
    /\ asked \in [Calls -> Request \cup {NULL}]
    /\ fn \in [Calls -> Fns \cup {NULL}]
    /\ answer \in [Calls -> Response \cup {NULL}]
    /\ server \in {"open", "closing", "closed"}
    /\ held \in [Calls -> SUBSET (Fns \cup {NULL})]

Meant(q, f) == IF f = NULL THEN Default(q) ELSE writeJSON(f.code, f.body)

(* A handler answers what the field of ITS endpoint said at some moment of *)
(* the call, nil meaning the default, in status and in body, and never     *)
(* from what another test or endpoint had set (server.go:43-76).           *)
AnswersFollowTheFn ==
    \A c \in Calls :
        answer[c] # NULL /\ asked[c].op # "health" =>
            IF Unparsable(asked[c]) THEN answer[c] = NotFound
            ELSE \E f \in held[c] : answer[c] = Meant(asked[c], f)

(* What the client makes of the answer, or of a connection that is gone. *)
ClientResult(c) ==
    IF answer[c] = NULL THEN Failed ELSE Result(answer[c].code, answer[c].body)

(* The client reports no error only when the test left the list alone, or  *)
(* gave a body to send with a 200 -- or with a status that only informs,   *)
(* which net/http follows with a 200 and that body: never for a nil body,  *)
(* one lost in Encode, a status that has none or a handler that panicked   *)
(* (server.go:79-87).                                                      *)
SuccessIsMeant ==
    \A c \in Calls :
        pc[c] = "done" /\ ClientResult(c).err = "nil" =>
            \/ asked[c].op = "list" /\ NULL \in held[c]
            \/ \E f \in held[c] \ {NULL} :
                f.body = "json" /\ (f.code = 200 \/ Informs(f.code))

(* A sentinel the client reports of an announcement endpoint is one that a *)
(* callback of it asked for by its status; the fake itself has only        *)
(* ErrNotFound, for a detail without a callback or without a number for    *)
(* its id, and no sentinel for a language (server.go:49-54, 64-73).        *)
SentinelsAreMeant ==
    \A c \in Calls :
        /\ pc[c] = "done" /\ asked[c].op # "health"
        /\ ClientResult(c).err \notin {"nil", "other"}
        => \/ \E f \in held[c] \ {NULL} :
                IsStatus(f.code) /\ newStatusError(f.code) = ClientResult(c).err
           \/ /\ ClientResult(c).err = "ErrNotFound" /\ asked[c].op = "detail"
              /\ NULL \in held[c] \/ Unparsable(asked[c])

(* A callback that blocks keeps no other request from its own callback:    *)
(* the mutex is free while callbacks run (server.go:44-46, 60-62).         *)
OneFnBlocksNobodyElse == \A c \in Calls : pc[c] = "sent" ~> pc[c] \in {"calling", "done"}

(* Close returns unless a callback blocks (server.go:40-41). *)
CloseReturns ==
    server = "closing" ~> (server = "closed" \/ \E c \in Calls : pc[c] = "calling")

(* data/openapi.yaml:14, 28-36, 45-55: the statuses of an operation.  An   *)
(* id that is no number is outside of it.                                  *)
Contract(q) ==
    CASE q.op = "health" -> {200}
      [] q.lang = "other" -> IF Unparsable(q) THEN {400, 404} ELSE {400}
      [] OTHER -> IF q.op = "list" THEN {200} ELSE {200, 404}

(* server.go:1, 15: the fake "implements support's HTTP contract".  Where  *)
(* no callback decides, its status is one the contract has for the case.   *)
ImplementsTheContract ==
    \A c \in Calls :
        answer[c] # NULL /\ (asked[c].op = "health" \/ held[c] = {NULL}) =>
            answer[c].code \in Contract(asked[c])
=============================================================================
