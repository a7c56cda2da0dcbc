--------------------------- MODULE MCClientRequests ---------------------------
(* ClientRequests for TLC: a host alone, a path below it with and without  *)
(* its slash, a query, and what does not parse.                            *)
EXTENDS ClientRequests, TLC

URL(parses, path, hasQuery) ==
    [parses |-> parses, path |-> path, hasQuery |-> hasQuery]

SomeURLs == {URL(TRUE, <<>>, FALSE), URL(TRUE, <<"p">>, FALSE),
             URL(TRUE, <<"p", "">>, FALSE), URL(TRUE, <<"p">>, TRUE),
             URL(FALSE, <<>>, FALSE)}

Symmetry == Permutations(Calls) \cup Permutations(Fns)
=============================================================================
