--------------------------- MODULE AnnouncementReads ---------------------------
(***************************************************************************)
(* What the announcement API promises, without pool, connections or rows:  *)
(* a read looks at the tables once, at one moment between request and      *)
(* answer, and answers with all it saw or with a failure.  The tables      *)
(* change only by edits, and an answer never changes.                      *)
(***************************************************************************)
EXTENDS AnnouncementData, SequencesExt

CONSTANTS
    Requests,  \* the HTTP requests of a behaviour
    Asked      \* what a request can ask for

VARIABLES
    db,      \* the committed tables
    clock,   \* the wall clock
    phase,   \* "idle", "asked", "looked" or "answered"
    query,   \* what a request asks for
    since,   \* the clock when a list was asked for
    seen,    \* the rows a list saw
    status,  \* the answer: its HTTP status ...
    rows     \* ... and its rows, or NULL for a 200 without a body

rvars == <<db, clock, phase, query, since, seen, status, rows>>

ReadsInit ==
    /\ db \in Database /\ WellFormed(db)
    /\ clock \in Times
    /\ phase = [r \in Requests |-> "idle"]
    /\ query = [r \in Requests |-> NULL]
    /\ since = [r \in Requests |-> 0]
    /\ seen = [r \in Requests |-> {}]
    /\ status = [r \in Requests |-> 0]
    /\ rows = [r \in Requests |-> <<>>]

(* The status of a question that is not worth a look at the tables; 0 for  *)
(* the others.                                                             *)
Verdict(q) ==
    IF q.op = "health" THEN 200
    ELSE IF q.op = "detail" /\ q.id = NULL THEN 404
    ELSE IF q.lang \notin SupportedLangs THEN 400
    ELSE 0

Reply(r, code) ==
    /\ phase' = [phase EXCEPT ![r] = "answered"]
    /\ status' = [status EXCEPT ![r] = code]
    /\ rows' = [rows EXCEPT ![r] = rows'[r]]
    /\ seen' = [seen EXCEPT ![r] = {}]
    /\ UNCHANGED <<db, clock, since>>

ReplyAtOnce(r) ==
    \E q \in Asked :
        /\ phase[r] = "idle" /\ Verdict(q) # 0
        /\ query' = [query EXCEPT ![r] = q]
        /\ Reply(r, Verdict(q))
        /\ rows'[r] = <<>>

Ask(r) ==
    \E q \in Asked :
        /\ phase[r] = "idle" /\ Verdict(q) = 0
        /\ phase' = [phase EXCEPT ![r] = "asked"]
        /\ query' = [query EXCEPT ![r] = q]
        /\ since' = IF q.op = "list" THEN [since EXCEPT ![r] = clock] ELSE since
        /\ UNCHANGED <<db, clock, seen, status, rows>>

(* The one look of a list, at any time since the question. *)
Look(r) ==
    /\ phase[r] = "asked" /\ query[r].op = "list"
    /\ phase' = [phase EXCEPT ![r] = "looked"]
    /\ \E time \in since[r]..clock :
        seen' = [seen EXCEPT ![r] = Listing(db, query[r].lang, time)]
    /\ UNCHANGED <<db, clock, query, since, status, rows>>

(* All that was seen, newest first -- or nothing at all, when a row of it  *)
(* has no JSON form; what cannot even be scanned is a failure.             *)
ReplyList(r) ==
    /\ phase[r] = "looked"
    /\ \A row \in seen[r] : Scannable(row.published_at)
    /\ Reply(r, 200)
    /\ \/ /\ \A row \in seen[r] : Renderable(row.published_at)
          /\ ToSet(rows'[r]) = seen[r]
          /\ \A i, j \in DOMAIN rows'[r] : i < j => Before(rows'[r][i], rows'[r][j])
       \/ /\ \E row \in seen[r] : ~Renderable(row.published_at)
          /\ rows'[r] = NULL
    /\ UNCHANGED query

(* A detail looks and answers in one. *)
ReplyDetail(r) ==
    /\ phase[r] = "asked" /\ query[r].op = "detail"
    /\ LET found == DetailRows(db, query[r].id, query[r].lang)
       IN  \/ /\ Reply(r, 200)
              /\ \E row \in found :
                    /\ Scannable(row.published_at)
                    /\ rows'[r] = IF Renderable(row.published_at) THEN <<row>> ELSE NULL
           \/ /\ found = {}
              /\ Reply(r, 404)
              /\ rows'[r] = <<>>
    /\ UNCHANGED query

ReplyFailure(r) ==
    /\ phase[r] \in {"asked", "looked"}
    /\ Reply(r, 500)
    /\ rows'[r] = <<>>
    /\ UNCHANGED query

Change ==
    /\ db' \in Database /\ WellFormed(db')
    /\ UNCHANGED <<clock, phase, query, since, seen, status, rows>>

Pass ==
    /\ clock' = clock + 1
    /\ UNCHANGED <<db, phase, query, since, seen, status, rows>>

ReadsNext ==
    \/ \E r \in Requests :
        \/ ReplyAtOnce(r) \/ Ask(r) \/ Look(r)
        \/ ReplyList(r) \/ ReplyDetail(r) \/ ReplyFailure(r)
    \/ Change
    \/ Pass

ReadsSpec == ReadsInit /\ [][ReadsNext]_rvars
=============================================================================
