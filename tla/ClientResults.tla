----------------------------- MODULE ClientResults -----------------------------
(***************************************************************************)
(* packages/api-support: what the Go client makes of a response.           *)
(***************************************************************************)
EXTENDS Integers, Sequences

CONSTANT NULL  \* no body

Errors == {"nil", "ErrNotFound", "ErrUnauthorized", "ErrBadRequest",
           "ErrInternalServer", "other"}

(* Mutant: 400 and 404 taken together. *)
newStatusErrorCoarse(code) == IF code >= 500 THEN "ErrInternalServer" ELSE "ErrNotFound"

(* Mutant: no case for 404. *)
newStatusErrorWithoutNotFound(code) ==
    CASE code = 401 -> "ErrUnauthorized"
      [] code = 400 -> "ErrBadRequest"
      [] code >= 500 -> "ErrInternalServer"
      [] OTHER -> "other"

newStatusError(code) ==
    CASE code = 401 -> "ErrUnauthorized"
      [] code = 404 -> "ErrNotFound"
      [] code = 400 -> "ErrBadRequest"
      [] code >= 500 -> "ErrInternalServer"
      [] OTHER -> "other"

(* Mutant: no look at whether JSON200 is there. *)
ResultUnchecked(code, body) ==
    [err |-> "nil", items |-> IF code = 200 THEN body ELSE NULL]

(* An error without a sentinel: the transport's, that of reading the body, *)
(* or json.Unmarshal's.                                                    *)
Failed == [err |-> "other", items |-> <<>>]

(* Parse...Response fills JSON200 for a 200 only.  A 200 without a body is *)
(* an error too: unmarshalling fails, or it was not announced as JSON.     *)
Result(code, body) ==
    IF code # 200 THEN [err |-> newStatusError(code), items |-> <<>>]
    ELSE IF body = NULL THEN Failed
    ELSE [err |-> "nil", items |-> body]
=============================================================================
