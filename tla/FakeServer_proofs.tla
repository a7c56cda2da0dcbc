--------------------------- MODULE FakeServer_proofs ---------------------------
(***************************************************************************)
(* What the fake server answers, for any number of requests and any set of *)
(* callbacks.                                                              *)
(***************************************************************************)
EXTENDS FakeServer, TLAPS

-----------------------------------------------------------------------------
(* Type correctness.                                                       *)

LEMMA ResponsesTyped ==
    /\ \A status \in Int : \A body : writeJSON(status, body) \in Response \cup {NULL}
    /\ NotFound \in Response
    /\ \A q : Default(q) \in Response
    /\ \A f \in Fns : writeJSON(f.code, f.body) \in Response \cup {NULL}
<1>1. \A status \in Int : \A body : writeJSON(status, body) \in Response \cup {NULL}
  BY DEF writeJSON, Response, IsStatus, Informs
<1>2. /\ writeJSON(404, "json") = [code |-> 404, body |-> "json"]
      /\ writeJSON(200, "json") = [code |-> 200, body |-> "json"]
  BY DEF writeJSON, IsStatus, Informs, Bodiless
<1> QED  BY <1>1, <1>2, FakeAssumption DEF NotFound, Default, Response

(* What the client can tell of a callback's answer. *)
LEMMA WrittenAnswer ==
    ASSUME NEW status \in Int, NEW body, NEW a, a = writeJSON(status, body), a # NULL
    PROVE  /\ IsStatus(status)
           /\ a.code = status \/ (Informs(status) /\ a.code = 200)
           /\ a.body # NULL => body = "json"
BY DEF writeJSON, IsStatus, Informs

LEMMA DefaultAnswers ==
    /\ NotFound = [code |-> 404, body |-> "json"]
    /\ \A q : Default(q) = IF q.op = "list" THEN [code |-> 200, body |-> "json"]
                           ELSE NotFound
BY DEF NotFound, Default, writeJSON, IsStatus, Informs, Bodiless

LEMMA FieldsTyped == \A q : FieldOf(q) \in Fields
BY DEF FieldOf, Fields

LEMMA FinishTyped ==
    ASSUME TypeOK, NEW c \in Calls, NEW a \in Response \cup {NULL},
           Finish(c, a), mu' = mu
    PROVE  TypeOK'
BY DEF TypeOK, Finish

LEMMA MoveTyped ==
    ASSUME TypeOK, NEW c \in Calls, NEW to \in Inside, Move(c, to),
           mu' \in Calls \cup {NULL}, fn' \in [Calls -> Fns \cup {NULL}]
    PROVE  TypeOK'
BY DEF TypeOK, Move

(* A handler that calls has something to call. *)
Called == \A c \in Calls : pc[c] = "calling" => fn[c] # NULL

LEMMA NextTypeOK == TypeOK /\ Called /\ [Next]_vars => TypeOK'
<1> SUFFICES ASSUME TypeOK, Called, [Next]_vars PROVE TypeOK'
  OBVIOUS
<1>1. ASSUME NEW f \in Fields, NEW value \in Fns \cup {NULL}, Install(f, value)
      PROVE  TypeOK'
  BY <1>1 DEF TypeOK, Install
<1>2. ASSUME NEW c \in Calls, NEW q \in Request, Call(c, q) PROVE TypeOK'
  <2>1. pc' \in [Calls -> {"idle", "sent", "done"} \cup Inside]
    BY <1>2 DEF Call, TypeOK
  <2>2. asked' \in [Calls -> Request \cup {NULL}]
    BY <1>2 DEF Call, TypeOK
  <2>3. held' \in [Calls -> SUBSET (Fns \cup {NULL})]
    BY <1>2, FieldsTyped DEF Call, TypeOK
  <2> QED  BY <1>2, <2>1, <2>2, <2>3 DEF Call, TypeOK
<1>3. CASE Close \/ Closed
  BY <1>3 DEF Close, Closed, TypeOK
<1>4. ASSUME NEW c \in Calls, CutOff(c) PROVE TypeOK'
  BY <1>4, FinishTyped DEF CutOff
<1>5. ASSUME NEW c \in Calls, NoRoute(c) PROVE TypeOK'
  BY <1>5, FinishTyped DEF NoRoute, Response
<1>6. ASSUME NEW c \in Calls, Lock(c) PROVE TypeOK'
  BY <1>6, MoveTyped DEF Lock, TypeOK, Inside
<1>7. ASSUME NEW c \in Calls, Read(c) PROVE TypeOK'
  <2>1. fn' \in [Calls -> Fns \cup {NULL}]
    BY <1>7, FieldsTyped DEF Read, TypeOK
  <2> QED  BY <1>7, <2>1, MoveTyped DEF Read, Inside
<1>8. ASSUME NEW c \in Calls, Respond(c) PROVE TypeOK'
  <2>1. CASE Unparsable(asked[c])
    BY <1>8, <2>1, FinishTyped, ResponsesTyped DEF Respond
  <2>2. CASE ~Unparsable(asked[c]) /\ fn[c] = NULL
    BY <1>8, <2>2, FinishTyped, ResponsesTyped DEF Respond
  <2>3. CASE ~Unparsable(asked[c]) /\ fn[c] # NULL
    BY <1>8, <2>3, MoveTyped DEF Respond, TypeOK, Inside
  <2> QED  BY <2>1, <2>2, <2>3
<1>9. ASSUME NEW c \in Calls, FnReturns(c) PROVE TypeOK'
  <2>1. fn[c] \in Fns
    BY <1>9 DEF Called, FnReturns, TypeOK
  <2> QED  BY <1>9, <2>1, FinishTyped, ResponsesTyped DEF FnReturns
<1>10. CASE UNCHANGED vars
  BY <1>10 DEF vars, TypeOK
<1> QED
  BY <1>1, <1>2, <1>3, <1>4, <1>5, <1>6, <1>7, <1>8, <1>9, <1>10 DEF Next, Handler

-----------------------------------------------------------------------------
(* The inductive invariant: what a handler holds comes from the field of   *)
(* its own request, as it was during the call.                             *)

Handling(c) ==
    /\ pc[c] # "idle" => asked[c] \in Request
    /\ pc[c] \in Inside => asked[c].op # "health"
    /\ pc[c] \in {"sent"} \cup Inside => field[FieldOf(asked[c])] \in held[c]
    /\ pc[c] \in {"unlocked", "calling"} => fn[c] \in held[c]
    /\ pc[c] = "calling" => fn[c] # NULL /\ ~Unparsable(asked[c])
    /\ pc[c] # "done" => answer[c] = NULL

(* A good answer to a request. *)
Answered(c, a) ==
    a # NULL =>
        IF asked[c].op = "health" THEN a.code = 404
        ELSE IF Unparsable(asked[c]) THEN a = NotFound
        ELSE \E f \in held[c] : a = Meant(asked[c], f)

IInv ==
    /\ TypeOK
    /\ \A c \in Calls : Handling(c) /\ Answered(c, answer[c])

LEMMA InitIInv == NewServer => IInv
<1> SUFFICES ASSUME NewServer PROVE IInv
  OBVIOUS
<1>1. TypeOK
  BY DEF NewServer, TypeOK
<1>2. \A c \in Calls : Handling(c)
  BY DEF NewServer, Handling, Inside
<1>3. \A c \in Calls : Answered(c, answer[c])
  BY DEF NewServer, Answered
<1> QED  BY <1>1, <1>2, <1>3 DEF IInv

LEMMA CalledHolds == IInv => Called
BY DEF IInv, Called, Handling

(* A response ends the call of one handler and leaves the others alone. *)
LEMMA FinishKeeps ==
    ASSUME IInv, TypeOK', NEW c \in Calls, NEW a, Finish(c, a), pc[c] # "idle",
           Answered(c, a)
    PROVE  IInv'
<1>1. \A d \in Calls : /\ pc'[d] = IF d = c THEN "done" ELSE pc[d]
                       /\ answer'[d] = IF d = c THEN a ELSE answer[d]
                       /\ fn'[d] = IF d = c THEN NULL ELSE fn[d]
  BY DEF Finish, IInv, TypeOK
<1>2. field' = field /\ asked' = asked /\ server' = server /\ held' = held
  BY DEF Finish
<1>3. \A d \in Calls : Handling(d)'
  BY <1>1, <1>2 DEF Handling, IInv, Inside
<1>4. \A d \in Calls : Answered(d, answer[d])'
  BY <1>1, <1>2 DEF Answered, IInv
<1> QED  BY <1>3, <1>4 DEF IInv

(* So does a step from one point of the handler to the next. *)
LEMMA MoveKeeps ==
    ASSUME IInv, TypeOK', NEW c \in Calls, NEW to \in Inside, Move(c, to),
           pc[c] \in Inside \cup {"sent"}, asked[c].op # "health",
           \A d \in Calls : d # c => fn'[d] = fn[d],
           to \in {"unlocked", "calling"} => fn'[c] \in held[c],
           to = "calling" => fn'[c] # NULL /\ ~Unparsable(asked[c])
    PROVE  IInv'
<1>1. \A d \in Calls : pc'[d] = IF d = c THEN to ELSE pc[d]
  BY DEF Move, IInv, TypeOK
<1>2. /\ field' = field /\ asked' = asked /\ server' = server /\ held' = held
      /\ answer' = answer
  BY DEF Move
<1>3. \A d \in Calls : d # c => Handling(d)'
  BY <1>1, <1>2 DEF Handling, IInv
<1>4. Handling(c)'
  BY <1>1, <1>2 DEF Handling, IInv, Inside
<1>5. \A d \in Calls : Answered(d, answer[d])'
  BY <1>2 DEF Answered, IInv
<1> QED  BY <1>3, <1>4, <1>5 DEF IInv

LEMMA InstallKeeps ==
    ASSUME IInv, TypeOK', NEW f \in Fields, NEW value, Install(f, value)
    PROVE  IInv'
<1>1. /\ \A g \in Fields : field'[g] = IF g = f THEN value ELSE field[g]
      /\ \A c \in Calls : held'[c] =
            IF pc[c] \notin {"idle", "done"} /\ FieldOf(asked[c]) = f
            THEN held[c] \cup {value} ELSE held[c]
      /\ UNCHANGED <<mu, pc, asked, fn, answer, server>>
  BY DEF Install, IInv, TypeOK
<1>2. \A c \in Calls : FieldOf(asked[c]) \in Fields
  BY FieldsTyped
<1>3. \A c \in Calls : Handling(c)'
  BY <1>1, <1>2 DEF Handling, IInv, Inside
<1>4. ASSUME NEW c \in Calls PROVE Answered(c, answer[c])'
  <2>1. CASE pc[c] = "done"
    BY <1>1, <2>1 DEF Answered, IInv
  <2>2. CASE pc[c] # "done"
    BY <1>1, <2>2 DEF Answered, Handling, IInv
  <2> QED  BY <2>1, <2>2
<1> QED  BY <1>3, <1>4 DEF IInv

LEMMA CallKeeps ==
    ASSUME IInv, TypeOK', NEW c \in Calls, NEW q \in Request, Call(c, q)
    PROVE  IInv'
<1>1. \A d \in Calls :
        /\ pc'[d] = IF d # c THEN pc[d] ELSE IF server = "open" THEN "sent" ELSE "done"
        /\ asked'[d] = IF d = c THEN q ELSE asked[d]
        /\ held'[d] = IF d = c THEN {field[FieldOf(q)]} ELSE held[d]
  BY DEF Call, IInv, TypeOK
<1>2. UNCHANGED <<field, mu, fn, answer, server>> /\ answer[c] = NULL
  BY DEF Call, IInv, Handling
<1>3. \A d \in Calls : Handling(d)'
  BY <1>1, <1>2 DEF Handling, IInv, Inside
<1>4. \A d \in Calls : Answered(d, answer[d])'
  BY <1>1, <1>2 DEF Answered, IInv
<1> QED  BY <1>3, <1>4 DEF IInv

LEMMA NextIInv == IInv /\ [Next]_vars => IInv'
<1> SUFFICES ASSUME IInv, [Next]_vars PROVE IInv'
  OBVIOUS
<1> TypeOK'
  BY NextTypeOK, CalledHolds DEF IInv
<1>1. ASSUME NEW f \in Fields, NEW value \in Fns \cup {NULL}, Install(f, value)
      PROVE  IInv'
  BY <1>1, InstallKeeps
<1>2. ASSUME NEW c \in Calls, NEW q \in Request, Call(c, q) PROVE IInv'
  BY <1>2, CallKeeps
<1>3. ASSUME UNCHANGED <<field, pc, asked, fn, answer, held>> PROVE IInv'
  BY <1>3 DEF IInv, Handling, Answered
<1>4. CASE Close
  BY <1>3, <1>4 DEF Close
<1>5. CASE Closed
  BY <1>3, <1>5 DEF Closed
<1>6. ASSUME NEW c \in Calls, CutOff(c) PROVE IInv'
  BY <1>6, FinishKeeps DEF CutOff, Answered
<1>7. ASSUME NEW c \in Calls, NoRoute(c) PROVE IInv'
  BY <1>7, FinishKeeps DEF NoRoute, Answered
<1>8. ASSUME NEW c \in Calls, Lock(c) PROVE IInv'
  BY <1>8, MoveKeeps DEF Lock, Inside
<1>9. ASSUME NEW c \in Calls, Read(c) PROVE IInv'
  <2>1. /\ fn'[c] = field[FieldOf(asked[c])] /\ \A d \in Calls : d # c => fn'[d] = fn[d]
        /\ pc[c] = "locked" /\ Move(c, "unlocked")
    BY <1>9 DEF Read, IInv, TypeOK
  <2>2. asked[c].op # "health" /\ field[FieldOf(asked[c])] \in held[c]
    BY <2>1 DEF IInv, Handling, Inside
  <2> QED  BY <2>1, <2>2, MoveKeeps DEF Inside
<1>10. ASSUME NEW c \in Calls, Respond(c) PROVE IInv'
  <2>1. pc[c] = "unlocked" /\ asked[c].op # "health" /\ fn[c] \in held[c]
    BY <1>10 DEF Respond, IInv, Handling, Inside
  <2>2. CASE Unparsable(asked[c])
    BY <1>10, <2>1, <2>2, FinishKeeps DEF Respond, Answered
  <2>3. CASE ~Unparsable(asked[c]) /\ fn[c] = NULL
    <3>1. Default(asked[c]) = Meant(asked[c], fn[c])
      BY <2>3 DEF Meant
    <3> QED  BY <1>10, <2>1, <2>3, <3>1, FinishKeeps DEF Respond, Answered
  <2>4. CASE ~Unparsable(asked[c]) /\ fn[c] # NULL
    BY <1>10, <2>1, <2>4, MoveKeeps DEF Respond, Inside
  <2> QED  BY <2>2, <2>3, <2>4
<1>11. ASSUME NEW c \in Calls, FnReturns(c) PROVE IInv'
  <2>1. /\ pc[c] = "calling" /\ asked[c].op # "health" /\ fn[c] \in held[c]
        /\ fn[c] # NULL /\ ~Unparsable(asked[c])
    BY <1>11 DEF FnReturns, IInv, Handling, Inside
  <2>2. writeJSON(fn[c].code, fn[c].body) = Meant(asked[c], fn[c])
    BY <2>1 DEF Meant
  <2> QED  BY <1>11, <2>1, <2>2, FinishKeeps DEF FnReturns, Answered
<1>12. CASE UNCHANGED vars
  BY <1>3, <1>12 DEF vars
<1> QED
  BY <1>1, <1>2, <1>4, <1>5, <1>6, <1>7, <1>8, <1>9, <1>10, <1>11, <1>12
  DEF Next, Handler

-----------------------------------------------------------------------------
(* The theorems.                                                           *)

(* Every variable keeps its type, whatever the test sets and when.         *)
THEOREM TypeCorrect == Spec => []TypeOK
<1>1. IInv => TypeOK
  BY DEF IInv
<1> QED  BY <1>1, InitIInv, NextIInv, PTL DEF Spec

(* server.go:43-76: an answer is what the Fn field of its endpoint said at *)
(* some moment of the call.                                                *)
THEOREM FollowsTheFn == Spec => []AnswersFollowTheFn
<1>1. IInv => AnswersFollowTheFn
  BY DEF IInv, Answered, AnswersFollowTheFn
<1> QED  BY <1>1, InitIInv, NextIInv, PTL DEF Spec

(* client.go:80-83, 92-95, 104-107 and server.go:79-87: the client takes   *)
(* for a success only a list left alone, or the body of a callback with    *)
(* the status 200 or one that only informs.                                *)
THEOREM SuccessMeant == Spec => []SuccessIsMeant
<1>1. ASSUME NEW code, NEW body, Result(code, body).err = "nil"
      PROVE  code = 200 /\ body # NULL
  BY <1>1 DEF Result, Failed, newStatusError
<1>2. ASSUME IInv, NEW c \in Calls, pc[c] = "done", ClientResult(c).err = "nil"
      PROVE  \/ asked[c].op = "list" /\ NULL \in held[c]
             \/ \E f \in held[c] \ {NULL} :
                  f.body = "json" /\ (f.code = 200 \/ Informs(f.code))
  <2>1. answer[c] # NULL /\ answer[c].code = 200 /\ answer[c].body # NULL
    BY <1>1, <1>2 DEF ClientResult, Failed
  <2>2. Answered(c, answer[c]) /\ held[c] \subseteq Fns \cup {NULL}
    BY <1>2 DEF IInv, TypeOK
  <2>3. NotFound.code = 404
    BY DefaultAnswers
  <2>4. PICK f \in held[c] : answer[c] = Meant(asked[c], f)
    BY <2>1, <2>2, <2>3 DEF Answered
  <2>5. CASE f = NULL
    BY <2>1, <2>3, <2>4, <2>5, DefaultAnswers DEF Meant
  <2>6. CASE f # NULL
    <3>1. f.code \in Int
      BY <2>2, <2>6, FakeAssumption
    <3>2. answer[c] = writeJSON(f.code, f.body)
      BY <2>4, <2>6 DEF Meant
    <3>3. f.body = "json" /\ (f.code = 200 \/ Informs(f.code))
      BY <2>1, <3>1, <3>2, WrittenAnswer
    <3> QED  BY <2>6, <3>3
  <2> QED  BY <2>5, <2>6
<1>3. IInv => SuccessIsMeant
  BY <1>2 DEF SuccessIsMeant
<1> QED  BY <1>3, InitIInv, NextIInv, PTL DEF Spec

(* client.go:110-126 and server.go:49-54, 64-73: of an announcement the    *)
(* client reports a sentinel only for the status of a callback, or         *)
(* ErrNotFound for a detail that the fake answers by itself.               *)
THEOREM SentinelsMeant == Spec => []SentinelsAreMeant
<1>1. ASSUME IInv, NEW c \in Calls, pc[c] = "done", asked[c].op # "health",
             ClientResult(c).err \notin {"nil", "other"}
      PROVE  \/ \E f \in held[c] \ {NULL} :
                  IsStatus(f.code) /\ newStatusError(f.code) = ClientResult(c).err
             \/ /\ ClientResult(c).err = "ErrNotFound" /\ asked[c].op = "detail"
                /\ NULL \in held[c] \/ Unparsable(asked[c])
  <2>1. /\ answer[c] # NULL /\ answer[c].code # 200
        /\ ClientResult(c).err = newStatusError(answer[c].code)
    BY <1>1 DEF ClientResult, Failed, Result
  <2>2. Answered(c, answer[c]) /\ held[c] \subseteq Fns \cup {NULL}
    BY <1>1 DEF IInv, TypeOK
  <2>3. NotFound.code = 404 /\ newStatusError(404) = "ErrNotFound"
    BY DefaultAnswers DEF newStatusError
  <2>4. CASE Unparsable(asked[c])
    BY <1>1, <2>1, <2>2, <2>3, <2>4 DEF Answered, Unparsable
  <2>5. CASE ~Unparsable(asked[c])
    <3>1. PICK f \in held[c] : answer[c] = Meant(asked[c], f)
      BY <1>1, <2>1, <2>2, <2>5 DEF Answered
    <3>2. CASE f = NULL
      <4>1. answer[c] = NotFound /\ asked[c].op # "list"
        BY <2>1, <3>1, <3>2, DefaultAnswers DEF Meant
      <4>2. asked[c].op = "detail"
        BY <1>1, <4>1 DEF IInv, Handling, Request
      <4> QED  BY <2>1, <2>3, <3>2, <4>1, <4>2
    <3>3. CASE f # NULL
      <4>1. f.code \in Int /\ answer[c] = writeJSON(f.code, f.body)
        BY <2>2, <3>1, <3>3, FakeAssumption DEF Meant
      <4>2. IsStatus(f.code) /\ answer[c].code = f.code
        BY <2>1, <4>1, WrittenAnswer
      <4> QED  BY <2>1, <3>3, <4>2
    <3> QED  BY <3>2, <3>3
  <2> QED  BY <2>4, <2>5
<1>2. IInv => SentinelsAreMeant
  BY <1>1 DEF SentinelsAreMeant
<1> QED  BY <1>2, InitIInv, NextIInv, PTL DEF Spec

-----------------------------------------------------------------------------
(* The mutex is held by the one handler that is about to read its field,   *)
(* which waits for nothing.                                                *)
HeldToRead == \A c \in Calls : mu = c <=> pc[c] = "locked"

LEMMA NextHeldToRead == TypeOK /\ HeldToRead /\ [Next]_vars => HeldToRead'
<1> SUFFICES ASSUME TypeOK, HeldToRead, [Next]_vars PROVE HeldToRead'
  OBVIOUS
<1> USE DEF TypeOK, HeldToRead
<1>1. ASSUME NEW f \in Fields, NEW value \in Fns \cup {NULL}, Install(f, value)
      PROVE  HeldToRead'
  BY <1>1 DEF Install
<1>2. ASSUME NEW c \in Calls, NEW q \in Request, Call(c, q) PROVE HeldToRead'
  BY <1>2 DEF Call
<1>3. CASE Close \/ Closed \/ UNCHANGED vars
  BY <1>3 DEF Close, Closed, vars
<1>4. ASSUME NEW c \in Calls, NEW a, Finish(c, a), UNCHANGED mu, pc[c] # "locked"
      PROVE  HeldToRead'
  BY <1>4 DEF Finish
<1>5. ASSUME NEW c \in Calls, CutOff(c) \/ NoRoute(c) \/ FnReturns(c) PROVE HeldToRead'
  BY <1>4, <1>5 DEF CutOff, NoRoute, FnReturns
<1>6. ASSUME NEW c \in Calls, Lock(c) PROVE HeldToRead'
  BY <1>6, FakeAssumption DEF Lock, Move
<1>7. ASSUME NEW c \in Calls, Read(c) PROVE HeldToRead'
  BY <1>7, FakeAssumption DEF Read, Move
<1>8. ASSUME NEW c \in Calls, Respond(c) PROVE HeldToRead'
  <2>1. CASE Unparsable(asked[c]) \/ fn[c] = NULL
    BY <1>4, <1>8, <2>1 DEF Respond
  <2>2. CASE ~Unparsable(asked[c]) /\ fn[c] # NULL
    BY <1>8, <2>2 DEF Respond, Move
  <2> QED  BY <2>1, <2>2
<1> QED
  BY <1>1, <1>2, <1>3, <1>5, <1>6, <1>7, <1>8 DEF Next, Handler

(* server.go:44-46, 60-62: no callback runs and no answer is written under *)
(* the mutex, and no way out of a handler keeps it; so whoever waits for   *)
(* it waits for one step.  The safety half of OneFnBlocksNobodyElse.       *)
THEOREM MutexHeldToRead == Spec => [](mu # NULL => pc[mu] = "locked")
<1>1. NewServer => HeldToRead
  BY FakeAssumption DEF NewServer, HeldToRead
<1>2. TypeOK /\ HeldToRead => (mu # NULL => pc[mu] = "locked")
  BY DEF TypeOK, HeldToRead
<1>3. IInv => TypeOK
  BY DEF IInv
<1> QED  BY <1>1, <1>2, <1>3, InitIInv, NextIInv, NextHeldToRead, PTL DEF Spec
=============================================================================
