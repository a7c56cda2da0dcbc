------------------------ MODULE AnnouncementRefinement ------------------------
(***************************************************************************)
(* AnnouncementService implements AnnouncementReads.  The one look of a    *)
(* list is the execution of its statement; what it saw are the rows        *)
(* scanned and those still to come.                                        *)
(***************************************************************************)
EXTENDS AnnouncementService

PhaseOf == [idle |-> "idle", waiting |-> "asked", querying |-> "asked",
            rows |-> "looked", done |-> "answered"]

readPhase == [r \in Requests |-> PhaseOf[pc[r]]]

readSeen ==
    [r \in Requests |->
        IF pc[r] = "rows" THEN rest[r] \cup ToSet(items[r]) ELSE {}]

readRows == [r \in Requests |-> IF pc[r] = "done" THEN Body(items[r]) ELSE <<>>]

Reads == INSTANCE AnnouncementReads
            WITH Asked <- Queries, phase <- readPhase, since <- now,
                 seen <- readSeen, rows <- readRows

(* Every answer is one look at the tables between request and answer, or a *)
(* failure; a list that loses rows after its statement is not answered     *)
(* with 200; no read writes the tables; no answer changes                  *)
(* (announcement_repo.go:30-80, usecase.go:25-49).                         *)
ImplementsReads == Reads!ReadsSpec
=============================================================================
