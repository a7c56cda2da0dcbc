----------------------------- MODULE MCFakeServer -----------------------------
(* FakeServer for TLC: a callback that answers what it means to, bodies    *)
(* that do not arrive, and statuses of every kind that client or net/http  *)
(* tell apart.                                                             *)
EXTENDS FakeServer, FiniteSets

F(code, body) == [code |-> code, body |-> body]

Good == F(200, "json")
Lost == F(200, "unencodable")

SomeFns ==
    {Good, Lost, F(200, NULL), F(204, "json"), F(103, "json"), F(400, "json"),
     F(401, NULL), F(404, "json"), F(500, NULL), F(1000, "json")}

(* A test has one callback at a time, or the two with a 200 and a body,    *)
(* counting those its calls may still have read.                           *)
InUse ==
    ({field[f] : f \in Fields} \cup UNION {held[c] : c \in Calls}) \ {NULL}

FewAtATime == InUse \subseteq {Good, Lost} \/ Cardinality(InUse) <= 1
=============================================================================
