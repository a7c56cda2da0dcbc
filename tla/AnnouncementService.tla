------------------------- MODULE AnnouncementService -------------------------
(***************************************************************************)
(* The internal REST API that reads announcements: gin router, handler,    *)
(* usecase, repository and pgxpool, with the requests running side by side *)
(* and operators editing the tables meanwhile.                             *)
(*                                                                         *)
(* A request is one element of Requests and is served once.  Its handler   *)
(* runs in the steps at whose boundaries another actor can move: up to the *)
(* wait for a pool connection, the statement, each row, the end.           *)
(***************************************************************************)
EXTENDS AnnouncementData, SequencesExt

CONSTANTS
    Requests,      \* the HTTP requests of a behaviour
    Conns,         \* the connections pgxpool may open (MaxConns of them)
    RequestLangs,  \* values of ?lang= that clients send; "" when it is absent
    EditorStamps,  \* bound: stamps an editor writes
    InitialDbs,    \* bound: contents of the tables when the behaviour starts
    MaxEdits       \* bound: edits in a behaviour

ASSUME ServiceAssumption ==
    /\ NULL \notin Conns
    /\ EditorStamps \subseteq Stamps \cup {NULL}
    /\ InitialDbs \subseteq Database
    /\ \A d \in InitialDbs : WellFormed(d)
    /\ MaxEdits \in Nat

VARIABLES
    db,       \* the committed tables
    nextId,   \* the IDENTITY sequence of announcements
    edits,    \* edits made so far (for the bound)
    clock,    \* the wall clock that time.Now reads
    pc,       \* where the handler of a request is
    query,    \* what the request asks for
    now,      \* the clock reading List passes to ListPublished
    waiting,  \* requests blocked in pool.Acquire, first come first served
    conn,     \* the connection a request owns, or NULL
    rest,     \* rows of the result set not yet read
    items,    \* rows scanned so far; in the end those given to c.JSON
    status,   \* HTTP status answered; 0 before the answer
    gone,     \* requests whose client has disconnected (context cancelled)
    \* history, for the properties only
    faulted,  \* requests hit by a failing dial, statement or row stream
    window    \* [db, time] pairs that held while the request was served

serving == <<pc, query, now, waiting, conn, rest, items, status>>
tables == <<db, nextId, edits>>
vars == <<tables, clock, serving, gone, faulted, window>>

-----------------------------------------------------------------------------
(* The requests the router accepts.  A malformed id is NULL.               *)

Queries ==
    [op : {"health"}, lang : {""}, id : {NULL}] \cup
    [op : {"list"}, lang : RequestLangs, id : {NULL}] \cup
    [op : {"detail"}, lang : RequestLangs, id : Ids \cup {NULL}]

Open(r) == pc[r] \in {"waiting", "querying", "rows"}

Instant == [db |-> db, time |-> clock]

TypeOK ==
    /\ db \in Database
    /\ nextId \in 1..(MaxId + 1)
    /\ edits \in 0..MaxEdits
    /\ clock \in Times
    /\ pc \in [Requests -> {"idle", "waiting", "querying", "rows", "done"}]
    /\ query \in [Requests -> Queries \cup {NULL}]
    /\ now \in [Requests -> Times]
    /\ waiting \in Seq(Requests)
    /\ conn \in [Requests -> Conns \cup {NULL}]
    /\ rest \in [Requests -> SUBSET Row]
    /\ items \in [Requests -> Seq(Row)]
    /\ status \in [Requests -> {0, 200, 400, 404, 500}]
    /\ gone \subseteq Requests
    /\ faulted \subseteq Requests
    /\ window \in [Requests -> SUBSET [db : Database, time : Times]]

Init ==
    /\ db \in InitialDbs
    /\ nextId \in 1..(MaxId + 1)
    /\ \A a \in db.announcements : a.announcement_id < nextId
    /\ edits = 0
    /\ clock = 0
    /\ pc = [r \in Requests |-> "idle"]
    /\ query = [r \in Requests |-> NULL]
    /\ now = [r \in Requests |-> 0]
    /\ waiting = <<>>
    /\ conn = [r \in Requests |-> NULL]
    /\ rest = [r \in Requests |-> {}]
    /\ items = [r \in Requests |-> <<>>]
    /\ status = [r \in Requests |-> 0]
    /\ gone = {}
    /\ faulted = {}
    /\ window = [r \in Requests |-> {}]

-----------------------------------------------------------------------------
(* Errors, by the sentinel a caller can test with errors.Is.  Any other    *)
(* error keeps no identity on its way up: "other".                         *)

validateLang(lang) ==
    CASE lang = "" -> "ErrLangRequired"
      [] lang \in SupportedLangs -> "nil"
      [] OTHER -> "ErrUnsupportedLang"

(* Mutant: every failure of the detail query passes for a missing row. *)
usecaseErrorIsNotFound(op, err) == IF op = "detail" THEN "ErrNotFound" ELSE "other"

(* usecase.GetDetail turns the port's sentinel into its own; every other   *)
(* repository error is wrapped and loses its identity.                     *)
usecaseError(op, err) ==
    IF op = "detail" /\ err = "port.ErrNotFound" THEN "ErrNotFound" ELSE "other"

(* Mutant: no case for ErrNotFound. *)
errorStatusWithoutNotFound(err) ==
    IF err \in {"ErrLangRequired", "ErrUnsupportedLang"} THEN 400 ELSE 500

errorStatus(err) ==
    CASE err = "ErrNotFound" -> 404
      [] err \in {"ErrLangRequired", "ErrUnsupportedLang"} -> 400
      [] OTHER -> 500

(* Mutant: no rows.Close on the way out. *)
AnswerKeepingConn(r, code, body) ==
    /\ pc' = [pc EXCEPT ![r] = "done"]
    /\ status' = [status EXCEPT ![r] = code]
    /\ items' = [items EXCEPT ![r] = body]
    /\ rest' = [rest EXCEPT ![r] = {}]
    /\ UNCHANGED conn

(* The handler writes its answer and returns.  On the way out rows.Close,  *)
(* or the end of QueryRow's Scan, has given the connection back.           *)
Answer(r, code, body) ==
    /\ pc' = [pc EXCEPT ![r] = "done"]
    /\ status' = [status EXCEPT ![r] = code]
    /\ items' = [items EXCEPT ![r] = body]
    /\ rest' = [rest EXCEPT ![r] = {}]
    /\ conn' = [conn EXCEPT ![r] = NULL]

Fail(r, err) == Answer(r, errorStatus(err), <<>>)

(* What c.JSON writes of the rows.  When json.Marshal refuses one, gin has *)
(* set the status already, and the answer goes out without a body.         *)
Body(shown) ==
    IF \A row \in ToSet(shown) : Renderable(row.published_at) THEN shown ELSE NULL

(* The repository returned err to the usecase. *)
RepositoryFails(r, err) == Fail(r, usecaseError(query[r].op, err))

-----------------------------------------------------------------------------
(* From the router to the first place a handler can block.                 *)

Begin(r, q) ==
    /\ pc[r] = "idle"
    /\ query' = [query EXCEPT ![r] = q]
    /\ window' = [window EXCEPT ![r] = {Instant}]
    /\ UNCHANGED <<tables, clock, gone, faulted>>

(* healthHandler asks nothing of the database. *)
ServeHealth(r) ==
    \E q \in Queries :
        /\ q.op = "health"
        /\ Begin(r, q)
        /\ Answer(r, 200, <<>>)
        /\ UNCHANGED <<now, waiting>>

(* GetDetail: ParseInt fails before the language is looked at. *)
RejectId(r) ==
    \E q \in Queries :
        /\ q.op = "detail" /\ q.id = NULL
        /\ Begin(r, q)
        /\ Answer(r, 404, <<>>)
        /\ UNCHANGED <<now, waiting>>

RejectLang(r) ==
    \E q \in Queries :
        /\ q.op = "list" \/ (q.op = "detail" /\ q.id # NULL)
        /\ validateLang(q.lang) # "nil"
        /\ Begin(r, q)
        /\ Fail(r, validateLang(q.lang))
        /\ UNCHANGED <<now, waiting>>

Enqueue(r) ==
    /\ pc' = [pc EXCEPT ![r] = "waiting"]
    /\ waiting' = Append(waiting, r)
    /\ UNCHANGED <<conn, rest, items, status>>

(* usecase.List evaluates u.now() as an argument: before the pool is asked *)
(* for a connection.                                                       *)
StartList(r) ==
    \E q \in Queries :
        /\ q.op = "list" /\ validateLang(q.lang) = "nil"
        /\ Begin(r, q)
        /\ now' = [now EXCEPT ![r] = clock]
        /\ Enqueue(r)

StartDetail(r) ==
    \E q \in Queries :
        /\ q.op = "detail" /\ q.id # NULL /\ validateLang(q.lang) = "nil"
        /\ Begin(r, q)
        /\ Enqueue(r)
        /\ UNCHANGED now

-----------------------------------------------------------------------------
(* pgxpool.Acquire: a fair semaphore of MaxConns slots, then an idle       *)
(* connection or a fresh dial.                                             *)

Owned == {conn[r] : r \in Requests}

InTurn(r) == waiting # <<>> /\ Head(waiting) = r /\ Conns \ Owned # {}

Acquire(r) ==
    /\ pc[r] = "waiting" /\ InTurn(r)
    /\ \E c \in Conns \ Owned : conn' = [conn EXCEPT ![r] = c]
    /\ pc' = [pc EXCEPT ![r] = "querying"]
    /\ waiting' = Tail(waiting)
    /\ UNCHANGED <<tables, clock, query, now, rest, items, status, gone, faulted, window>>

(* No idle connection, and the dial of a new one fails. *)
DialFails(r) ==
    /\ pc[r] = "waiting" /\ InTurn(r)
    /\ waiting' = Tail(waiting)
    /\ RepositoryFails(r, "other")
    /\ faulted' = faulted \cup {r}
    /\ UNCHANGED <<tables, clock, query, now, gone, window>>

(* The client left: the request's context ends the wait, at any place in   *)
(* the queue.                                                              *)
AcquireCancelled(r) ==
    /\ pc[r] = "waiting" /\ r \in gone
    /\ \E i \in DOMAIN waiting :
        /\ waiting[i] = r
        /\ waiting' = RemoveAt(waiting, i)
    /\ RepositoryFails(r, "other")
    /\ UNCHANGED <<tables, clock, query, now, gone, faulted, window>>

-----------------------------------------------------------------------------
(* ListPublished.  The statement sees one snapshot; the rows come after.   *)

ExecuteList(r) ==
    /\ pc[r] = "querying" /\ query[r].op = "list"
    /\ pc' = [pc EXCEPT ![r] = "rows"]
    /\ rest' = [rest EXCEPT ![r] = Listing(db, query[r].lang, now[r])]
    /\ UNCHANGED <<tables, clock, query, now, waiting, conn, items, status,
                   gone, faulted, window>>

(* The row rows.Next delivers: ORDER BY decides. *)
First(r, row) ==
    /\ row \in rest[r]
    /\ \A other \in rest[r] \ {row} : Before(row, other)

ScanRow(r) ==
    /\ pc[r] = "rows"
    /\ \E row \in rest[r] :
        /\ First(r, row)
        /\ Scannable(row.published_at)
        /\ items' = [items EXCEPT ![r] = Append(@, row)]
        /\ rest' = [rest EXCEPT ![r] = @ \ {row}]
    /\ UNCHANGED <<tables, clock, pc, query, now, waiting, conn, status,
                   gone, faulted, window>>

(* Mutant: a bad row is skipped and the list goes on. *)
ScanFailsSkipping(r) ==
    /\ pc[r] = "rows"
    /\ \E row \in rest[r] :
        /\ First(r, row)
        /\ ~Scannable(row.published_at)
        /\ rest' = [rest EXCEPT ![r] = @ \ {row}]
    /\ UNCHANGED <<tables, clock, pc, query, now, waiting, conn, items, status,
                   gone, faulted, window>>

(* One bad row fails the list: what was scanned before it is dropped. *)
ScanFails(r) ==
    /\ pc[r] = "rows"
    /\ \E row \in rest[r] :
        /\ First(r, row)
        /\ ~Scannable(row.published_at)
    /\ RepositoryFails(r, "other")
    /\ UNCHANGED <<tables, clock, query, now, waiting, gone, faulted, window>>

EndOfRows(r) ==
    /\ pc[r] = "rows" /\ rest[r] = {}
    /\ Answer(r, 200, items[r])
    /\ UNCHANGED <<tables, clock, query, now, waiting, gone, faulted, window>>

(* Mutant: no look at rows.Err, so that a broken stream ends the list. *)
QueryFailsUnnoticed(r) ==
    /\ pc[r] \in {"querying", "rows"}
    /\ IF pc[r] = "rows" THEN Answer(r, 200, items[r]) ELSE RepositoryFails(r, "other")
    /\ faulted' = faulted \cup {r}
    /\ UNCHANGED <<tables, clock, query, now, waiting, gone, window>>

(* pool.Query's error, or rows.Err after the last rows.Next, or QueryRow's *)
(* Scan: a lost connection, a server error.                                *)
QueryFails(r) ==
    /\ pc[r] \in {"querying", "rows"}
    /\ RepositoryFails(r, "other")
    /\ faulted' = faulted \cup {r}
    /\ UNCHANGED <<tables, clock, query, now, waiting, gone, window>>

(* The same errors, when it is the request's context that ended them: the  *)
(* client left.                                                            *)
QueryCancelled(r) ==
    /\ pc[r] \in {"querying", "rows"} /\ r \in gone
    /\ RepositoryFails(r, "other")
    /\ UNCHANGED <<tables, clock, query, now, waiting, gone, faulted, window>>

(* GetPublishedDetail: QueryRow and its Scan. *)
DetailFor(r) == DetailRows(db, query[r].id, query[r].lang)

DetailFound(r) ==
    \E row \in DetailFor(r) :
        Scannable(row.published_at) /\ Answer(r, 200, <<row>>)

DetailMissing(r) ==
    DetailFor(r) = {} /\ RepositoryFails(r, "port.ErrNotFound")

DetailUnscannable(r) ==
    \E row \in DetailFor(r) :
        ~Scannable(row.published_at) /\ RepositoryFails(r, "other")

ExecuteDetail(r) ==
    /\ pc[r] = "querying" /\ query[r].op = "detail"
    /\ DetailFound(r) \/ DetailMissing(r) \/ DetailUnscannable(r)
    /\ UNCHANGED <<tables, clock, query, now, waiting, gone, faulted, window>>

(* net/http cancels the request's context when the peer goes away. *)
ClientGone(r) ==
    /\ Open(r) /\ r \notin gone
    /\ gone' = gone \cup {r}
    /\ UNCHANGED <<tables, clock, serving, faulted, window>>

-----------------------------------------------------------------------------
(* The environment: operators with SQL, and time.                          *)

Observe(d, t) ==
    window' = [r \in Requests |->
                IF Open(r) THEN window[r] \cup {[db |-> d, time |-> t]}
                           ELSE window[r]]

Edit(d) ==
    /\ edits < MaxEdits
    /\ edits' = edits + 1
    /\ db' = d
    /\ Observe(d, clock)
    /\ UNCHANGED <<clock, serving, gone, faulted>>

(* GENERATED ALWAYS AS IDENTITY: an id is drawn once and never again. *)
Insert ==
    /\ nextId \in Ids
    /\ nextId' = nextId + 1
    /\ \E published, expires \in EditorStamps :
        Edit(InsertAnnouncement(db, nextId, published, expires))

SetPeriod ==
    /\ \E a \in db.announcements, published, expires \in EditorStamps :
        Edit(UpdatePeriod(db, a, published, expires))
    /\ UNCHANGED nextId

(* The foreign key demands a parent. *)
Translate ==
    /\ \E a \in db.announcements, lang \in StoredLangs, title \in Titles :
        Edit(PutTranslation(db, a.announcement_id, lang, title))
    /\ UNCHANGED nextId

DropTranslation ==
    /\ \E t \in db.translations : Edit(RemoveTranslation(db, t))
    /\ UNCHANGED nextId

Delete ==
    /\ \E a \in db.announcements : Edit(DeleteAnnouncement(db, a))
    /\ UNCHANGED nextId

Tick ==
    /\ clock < MaxTime
    /\ clock' = clock + 1
    /\ Observe(db, clock + 1)
    /\ UNCHANGED <<tables, serving, gone, faulted>>

-----------------------------------------------------------------------------
Serve(r) ==
    \/ ServeHealth(r) \/ RejectId(r) \/ RejectLang(r)
    \/ StartList(r) \/ StartDetail(r)

Progress(r) ==
    \/ Acquire(r) \/ ExecuteList(r) \/ ExecuteDetail(r)
    \/ ScanRow(r) \/ ScanFails(r) \/ EndOfRows(r)

Fault(r) ==
    \/ DialFails(r) \/ QueryFails(r)
    \/ ClientGone(r) \/ AcquireCancelled(r) \/ QueryCancelled(r)

Editor == Insert \/ SetPeriod \/ Translate \/ DropTranslation \/ Delete

Next ==
    \/ \E r \in Requests : Serve(r) \/ Progress(r) \/ Fault(r)
    \/ Editor
    \/ Tick

Spec == Init /\ [][Next]_vars

(* The Go scheduler runs a handler that can move, and the database answers *)
(* every statement.  Nothing in the code makes the second true: there is   *)
(* no timeout on a statement or on the wait for a connection.              *)
Fairness == \A r \in Requests : WF_vars(Progress(r))

FairSpec == Spec /\ Fairness

-----------------------------------------------------------------------------
(* Properties                                                              *)

Versions(r) == {w.db : w \in window[r]}
Instants(r) == {w.time : w \in window[r]}

Ordered(s) == \A i, j \in DOMAIN s : i < j => Before(s[i], s[j])

Answered(r, op) == pc[r] = "done" /\ query[r].op = op

ListExact(r) ==
    Answered(r, "list") /\ status[r] = 200 =>
        /\ \E d \in Versions(r), t \in Instants(r) :
                ToSet(items[r]) = Listing(d, query[r].lang, t)
        /\ Ordered(items[r])

(* A list answered with 200 is, row for row, the listing of ONE version of *)
(* the tables that was current while the request was served, taken at a    *)
(* clock reading of that time, newest first: never a mix of two versions,  *)
(* never the rows read before a failure (announcement_repo.go:30-59).      *)
ListAnswerExact == \A r \in Requests : ListExact(r)

FoundExact(r) ==
    Answered(r, "detail") /\ status[r] = 200 =>
        \E d \in Versions(r) :
            ToSet(items[r]) = DetailRows(d, query[r].id, query[r].lang)

MissingExact(r) ==
    status[r] = 404 =>
        /\ Answered(r, "detail")
        /\ \/ query[r].id = NULL
           \/ \E d \in Versions(r) :
                DetailRows(d, query[r].id, query[r].lang) = {}

(* A detail answer is true of some version of the tables current while the *)
(* request was served: 200 with the row as it was, and 404               *)
(* only where there was none -- never because a query failed               *)
(* (usecase.go:41-46).                                                     *)
DetailAnswerExact == \A r \in Requests : FoundExact(r) /\ MissingExact(r)

Poisoned(r) ==
    \E d \in Versions(r), t \in Instants(r) :
        \E row \in Listing(d, query[r].lang, t) \cup
                   DetailRows(d, query[r].id, query[r].lang) :
            ~Scannable(row.published_at)

HasCause(r) == status[r] = 500 => r \in gone \/ r \in faulted \/ Poisoned(r)

(* A 500 has a cause outside the handlers: the client left, a connection   *)
(* or statement failed, or a row the request selects holds a stamp that    *)
(* time.Time cannot (announcement_repo.go:50, 73).                         *)
FailureHasCause == \A r \in Requests : HasCause(r)

(* A connection belongs to at most one request, and only to one that is    *)
(* inside its query: every way out of it, errors included, has given the   *)
(* connection back (announcement_repo.go:45).                              *)
PoolAccounting ==
    \A r \in Requests :
        /\ conn[r] # NULL <=> pc[r] \in {"querying", "rows"}
        /\ \A s \in Requests : conn[r] = conn[s] /\ r # s => conn[r] = NULL

(* Whoever waits is in the queue, whose first request can go on unless     *)
(* every connection is in a query of a request that does not wait: nobody  *)
(* is forgotten, and nobody waits for one who waits                        *)
(* (announcement_repo.go:31-58, 68-80).                                    *)
NobodyIsStranded ==
    \A r \in Requests :
        pc[r] = "waiting" =>
            /\ \E i \in 1..Len(waiting) : waiting[i] = r
            /\ pc[Head(waiting)] = "waiting"
            /\ \/ InTurn(Head(waiting))
               \/ \A c \in Conns : \E s \in Requests :
                    conn[s] = c /\ pc[s] \in {"querying", "rows"}

(* No edit leaves a translation without its announcement, or two rows      *)
(* under one key, on which "at most one detail row" and the strict order   *)
(* of the list rest (schema.sql:6, 17, 22).                                *)
TablesWellFormed == WellFormed(db)

(* A request that entered the pool's queue is answered, however many       *)
(* others fail, leave or come after it.                                    *)
EveryRequestAnswered ==
    \A r \in Requests : pc[r] = "waiting" ~> pc[r] = "done"

(* data/openapi.yaml:25, usecase.go:24: the list is of the announcements   *)
(* "in publication": each was published, with its text, at some instant of *)
(* the request.                                                            *)
ListedWhilePublic ==
    \A r \in Requests :
        Answered(r, "list") /\ status[r] = 200 =>
            \A row \in ToSet(items[r]) :
                \E w \in window[r] :
                    row \in Listing(w.db, query[r].lang, w.time)
=============================================================================
