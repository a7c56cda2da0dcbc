------------------------- MODULE SupportService_proofs -------------------------
(***************************************************************************)
(* The theorems of AnnouncementService, of its refinement of               *)
(* AnnouncementReads, and of SupportClient, which is the same service with *)
(* the client that calls it: in this order, each part on those before it.  *)
(***************************************************************************)
EXTENDS SupportClient, AnnouncementRefinement, SequenceTheorems, TLAPS

-----------------------------------------------------------------------------
(***************************************************************************)
(* I. AnnouncementService: the types.                                      *)
(***************************************************************************)

(* The operators on the tables.                                            *)

(* Every edit yields tables of the right type.                             *)
LEMMA EditsTyped ==
    ASSUME NEW d \in Database
    PROVE  /\ \A id \in Ids : \A p, e \in Stamps \cup {NULL} :
                InsertAnnouncement(d, id, p, e) \in Database
           /\ \A a \in d.announcements : \A p, e \in Stamps \cup {NULL} :
                UpdatePeriod(d, a, p, e) \in Database
           /\ \A a \in d.announcements, lang \in StoredLangs, title \in Titles :
                PutTranslation(d, a.announcement_id, lang, title) \in Database
           /\ \A t \in d.translations : RemoveTranslation(d, t) \in Database
           /\ \A a \in d.announcements : DeleteAnnouncement(d, a) \in Database
<1>0. d.announcements \subseteq Announcement /\ d.translations \subseteq Translation
  BY DEF Database
<1>1. ASSUME NEW id \in Ids, NEW p \in Stamps \cup {NULL}, NEW e \in Stamps \cup {NULL}
      PROVE  InsertAnnouncement(d, id, p, e) \in Database
  <2>1. [announcement_id |-> id, published_at |-> p, expires_at |-> e] \in Announcement
    BY DEF Announcement
  <2> QED  BY <1>0, <2>1 DEF InsertAnnouncement, Database
<1>2. ASSUME NEW a \in d.announcements,
             NEW p \in Stamps \cup {NULL}, NEW e \in Stamps \cup {NULL}
      PROVE  UpdatePeriod(d, a, p, e) \in Database
  <2>1. [a EXCEPT !.published_at = p, !.expires_at = e] \in Announcement
    BY <1>0 DEF Announcement
  <2> QED  BY <1>0, <2>1 DEF UpdatePeriod, Database
<1>3. ASSUME NEW a \in d.announcements, NEW lang \in StoredLangs, NEW title \in Titles
      PROVE  PutTranslation(d, a.announcement_id, lang, title) \in Database
  <2>1. [announcement_id |-> a.announcement_id, lang |-> lang, title |-> title]
            \in Translation
    BY <1>0 DEF Announcement, Translation
  <2> QED  BY <1>0, <2>1 DEF PutTranslation, Database
<1>4. \A t \in d.translations : RemoveTranslation(d, t) \in Database
  BY <1>0 DEF RemoveTranslation, Database
<1>5. \A a \in d.announcements : DeleteAnnouncement(d, a) \in Database
  BY <1>0 DEF DeleteAnnouncement, Database
<1> QED  BY <1>1, <1>2, <1>3, <1>4, <1>5

(* Both queries return rows of type Row.                                   *)
LEMMA SelectedTyped ==
    ASSUME NEW d \in Database, NEW lang, NEW p \in Joined(d, lang)
    PROVE  Selected(p) \in Row
BY DEF Joined, Selected, Row, Database, Announcement, Translation

LEMMA ListingTyped ==
    ASSUME NEW d \in Database, NEW lang, NEW t
    PROVE  Listing(d, lang, t) \subseteq Row
BY SelectedTyped DEF Listing

LEMMA DetailTyped ==
    ASSUME NEW d \in Database, NEW lang, NEW id
    PROVE  DetailRows(d, id, lang) \subseteq Row
BY SelectedTyped DEF DetailRows

(* A well-formed database has at most one row per id and language.         *)
LEMMA DetailUnique ==
    ASSUME NEW d \in Database, WellFormed(d), NEW lang, NEW id,
           NEW x \in DetailRows(d, id, lang)
    PROVE  DetailRows(d, id, lang) = {x}
<1>1. \A p, q \in Joined(d, lang) :
        p[1].announcement_id = q[1].announcement_id => p[1] = q[1] /\ p[2] = q[2]
  BY DEF Joined, WellFormed, AnnouncementKey, TranslationKey
<1>2. \A y \in DetailRows(d, id, lang) : y = x
  BY <1>1 DEF DetailRows, Selected
<1> QED  BY <1>2

(* The edits keep keys and foreign key, the insert provided its id is new. *)
LEMMA EditsWellFormed ==
    ASSUME NEW d \in Database, WellFormed(d)
    PROVE  /\ \A id \in Ids : \A p, e :
                (\A a \in d.announcements : a.announcement_id # id)
                    => WellFormed(InsertAnnouncement(d, id, p, e))
           /\ \A a \in d.announcements : \A p, e :
                WellFormed(UpdatePeriod(d, a, p, e))
           /\ \A a \in d.announcements : \A lang, title :
                WellFormed(PutTranslation(d, a.announcement_id, lang, title))
           /\ \A t \in d.translations : WellFormed(RemoveTranslation(d, t))
           /\ \A a \in d.announcements : WellFormed(DeleteAnnouncement(d, a))
<1> USE DEF WellFormed, AnnouncementKey, TranslationKey, NoOrphan
<1>0. d.announcements \subseteq Announcement /\ d.translations \subseteq Translation
  BY DEF Database
<1>1. ASSUME NEW id \in Ids, NEW p, NEW e,
             \A a \in d.announcements : a.announcement_id # id
      PROVE  WellFormed(InsertAnnouncement(d, id, p, e))
  BY <1>1, SMTT(30) DEF InsertAnnouncement, Database
<1>2. ASSUME NEW a \in d.announcements, NEW p, NEW e
      PROVE  WellFormed(UpdatePeriod(d, a, p, e))
  <2> DEFINE b == [a EXCEPT !.published_at = p, !.expires_at = e]
  <2>1. b.announcement_id = a.announcement_id
    BY <1>0 DEF Announcement
  <2>2. /\ UpdatePeriod(d, a, p, e).announcements = (d.announcements \ {a}) \cup {b}
        /\ UpdatePeriod(d, a, p, e).translations = d.translations
    BY DEF UpdatePeriod, Database
  <2> HIDE DEF b
  <2> QED  BY <2>1, <2>2
<1>3. ASSUME NEW a \in d.announcements, NEW lang, NEW title
      PROVE  WellFormed(PutTranslation(d, a.announcement_id, lang, title))
  BY <1>0, SMTT(30) DEF PutTranslation, Database, Translation
<1>4. \A t \in d.translations : WellFormed(RemoveTranslation(d, t))
  BY DEF RemoveTranslation, Database
<1>5. \A a \in d.announcements : WellFormed(DeleteAnnouncement(d, a))
  BY DEF DeleteAnnouncement
<1> QED  BY <1>1, <1>2, <1>3, <1>4, <1>5
-----------------------------------------------------------------------------
(* Type correctness.                                                       *)

(* Whatever error a handler meets, it answers with one of three statuses.  *)
LEMMA ErrorStatusTyped ==
    ASSUME NEW err
    PROVE  errorStatus(err) \in {400, 404, 500}
BY DEF errorStatus

(* The variables an answer sets.                                           *)
ServingTyped ==
    /\ pc \in [Requests -> {"idle", "waiting", "querying", "rows", "done"}]
    /\ status \in [Requests -> {0, 200, 400, 404, 500}]
    /\ items \in [Requests -> Seq(Row)]
    /\ rest \in [Requests -> SUBSET Row]
    /\ conn \in [Requests -> Conns \cup {NULL}]

(* An answer keeps the types of the variables it sets.                     *)
LEMMA AnswerTyped ==
    ASSUME TypeOK, NEW r \in Requests,
           NEW code \in {200, 400, 404, 500}, NEW body \in Seq(Row),
           Answer(r, code, body)
    PROVE  ServingTyped'
BY DEF TypeOK, ServingTyped, Answer

LEMMA EmptyAnswerTyped ==
    ASSUME TypeOK, NEW r \in Requests, NEW code \in {200, 400, 404, 500},
           Answer(r, code, <<>>)
    PROVE  ServingTyped'
<1>1. <<>> \in Seq(Row)
  OBVIOUS
<1> QED  BY <1>1 DEF Answer, ServingTyped, TypeOK

LEMMA FailTyped ==
    ASSUME TypeOK, NEW r \in Requests, NEW err, Fail(r, err)
    PROVE  ServingTyped'
BY ErrorStatusTyped, EmptyAnswerTyped DEF Fail

(* The start of a request and an observation keep the types of what they   *)
(* set.                                                                    *)
LEMMA BeginTyped ==
    ASSUME TypeOK, NEW r \in Requests, NEW q \in Queries, Begin(r, q)
    PROVE  /\ query' \in [Requests -> Queries \cup {NULL}]
           /\ window' \in [Requests -> SUBSET [db : Database, time : Times]]
BY DEF TypeOK, Begin, Instant

LEMMA ObserveTyped ==
    ASSUME TypeOK, NEW d \in Database, NEW t \in Times, Observe(d, t)
    PROVE  window' \in [Requests -> SUBSET [db : Database, time : Times]]
BY DEF TypeOK, Observe

LEMMA EditTyped ==
    ASSUME TypeOK, NEW d \in Database, Edit(d), nextId' \in 1..(MaxId + 1)
    PROVE  TypeOK'
<1>1. window' \in [Requests -> SUBSET [db : Database, time : Times]]
  BY ObserveTyped DEF Edit, TypeOK
<1>2. edits' \in 0..MaxEdits
  BY ServiceAssumption DEF Edit, TypeOK
<1> QED  BY <1>1, <1>2 DEF Edit, TypeOK, serving

LEMMA InitTypeOK == Init => TypeOK
BY DataAssumption, ServiceAssumption DEF Init, TypeOK, Times

LEMMA NextTypeOK == TypeOK /\ [Next]_vars => TypeOK'
<1> SUFFICES ASSUME TypeOK, [Next]_vars PROVE TypeOK'
  OBVIOUS
<1> USE DEF tables, serving, ServingTyped
<1>1. ASSUME NEW r \in Requests, ServeHealth(r) PROVE TypeOK'
  <2>1. PICK q \in Queries : Begin(r, q)
    BY <1>1 DEF ServeHealth
  <2>2. Answer(r, 200, <<>>) /\ UNCHANGED <<now, waiting>>
    BY <1>1 DEF ServeHealth
  <2>3. /\ query' \in [Requests -> Queries \cup {NULL}]
        /\ window' \in [Requests -> SUBSET [db : Database, time : Times]]
    BY <2>1, BeginTyped
  <2>4. ServingTyped'
    BY <2>2, EmptyAnswerTyped
  <2> QED  BY <2>1, <2>2, <2>3, <2>4 DEF Begin, TypeOK
<1>2. ASSUME NEW r \in Requests, RejectId(r) PROVE TypeOK'
  <2>1. PICK q \in Queries : Begin(r, q)
    BY <1>2 DEF RejectId
  <2>2. Answer(r, 404, <<>>) /\ UNCHANGED <<now, waiting>>
    BY <1>2 DEF RejectId
  <2>3. /\ query' \in [Requests -> Queries \cup {NULL}]
        /\ window' \in [Requests -> SUBSET [db : Database, time : Times]]
    BY <2>1, BeginTyped
  <2>4. ServingTyped'
    BY <2>2, EmptyAnswerTyped
  <2> QED  BY <2>1, <2>2, <2>3, <2>4 DEF Begin, TypeOK
<1>3. ASSUME NEW r \in Requests, RejectLang(r) PROVE TypeOK'
  <2>1. PICK q \in Queries : Begin(r, q) /\ Fail(r, validateLang(q.lang))
    BY <1>3 DEF RejectLang
  <2>2. UNCHANGED <<now, waiting>>
    BY <1>3 DEF RejectLang
  <2>3. /\ query' \in [Requests -> Queries \cup {NULL}]
        /\ window' \in [Requests -> SUBSET [db : Database, time : Times]]
    BY <2>1, BeginTyped
  <2>4. ServingTyped'
    BY <2>1, FailTyped
  <2> QED  BY <2>1, <2>2, <2>3, <2>4 DEF Begin, TypeOK
<1>4. ASSUME NEW r \in Requests, StartList(r) PROVE TypeOK'
  <2>1. PICK q \in Queries : Begin(r, q)
    BY <1>4 DEF StartList
  <2>2. Enqueue(r) /\ now' = [now EXCEPT ![r] = clock]
    BY <1>4 DEF StartList
  <2>3. waiting' \in Seq(Requests)
    BY <2>2 DEF Enqueue, TypeOK
  <2>4. /\ query' \in [Requests -> Queries \cup {NULL}]
        /\ window' \in [Requests -> SUBSET [db : Database, time : Times]]
    BY <2>1, BeginTyped
  <2> QED  BY <2>1, <2>2, <2>3, <2>4 DEF Begin, Enqueue, TypeOK
<1>5. ASSUME NEW r \in Requests, StartDetail(r) PROVE TypeOK'
  <2>1. PICK q \in Queries : Begin(r, q)
    BY <1>5 DEF StartDetail
  <2>2. Enqueue(r) /\ UNCHANGED now
    BY <1>5 DEF StartDetail
  <2>3. waiting' \in Seq(Requests)
    BY <2>2 DEF Enqueue, TypeOK
  <2>4. /\ query' \in [Requests -> Queries \cup {NULL}]
        /\ window' \in [Requests -> SUBSET [db : Database, time : Times]]
    BY <2>1, BeginTyped
  <2> QED  BY <2>1, <2>2, <2>3, <2>4 DEF Begin, Enqueue, TypeOK
<1>6. ASSUME NEW r \in Requests, Acquire(r) PROVE TypeOK'
  <2>1. Tail(waiting) \in Seq(Requests)
    BY <1>6 DEF Acquire, InTurn, TypeOK
  <2> QED  BY <1>6, <2>1 DEF Acquire, TypeOK
<1>7. ASSUME NEW r \in Requests, DialFails(r) PROVE TypeOK'
  <2>1. Tail(waiting) \in Seq(Requests)
    BY <1>7 DEF DialFails, InTurn, TypeOK
  <2> QED  BY <1>7, <2>1, FailTyped DEF DialFails, RepositoryFails, TypeOK
<1>8. ASSUME NEW r \in Requests, AcquireCancelled(r) PROVE TypeOK'
  <2>1. \A i \in DOMAIN waiting : RemoveAt(waiting, i) \in Seq(Requests)
    BY DEF RemoveAt, TypeOK
  <2> QED  BY <1>8, <2>1, FailTyped DEF AcquireCancelled, RepositoryFails, TypeOK
<1>9. ASSUME NEW r \in Requests, ExecuteList(r) PROVE TypeOK'
  <2>1. Listing(db, query[r].lang, now[r]) \subseteq Row
    BY ListingTyped DEF TypeOK
  <2> QED  BY <1>9, <2>1 DEF ExecuteList, TypeOK
<1>10. ASSUME NEW r \in Requests, ScanRow(r) PROVE TypeOK'
  <2>1. PICK row \in rest[r] :
          /\ items' = [items EXCEPT ![r] = Append(@, row)]
          /\ rest' = [rest EXCEPT ![r] = @ \ {row}]
    BY <1>10 DEF ScanRow
  <2>2. row \in Row
    BY DEF TypeOK
  <2>3. Append(items[r], row) \in Seq(Row)
    BY <2>2 DEF TypeOK
  <2> QED  BY <1>10, <2>1, <2>3 DEF ScanRow, TypeOK
<1>11. ASSUME NEW r \in Requests, ScanFails(r) PROVE TypeOK'
  BY <1>11, FailTyped DEF ScanFails, RepositoryFails, TypeOK
<1>12. ASSUME NEW r \in Requests, EndOfRows(r) PROVE TypeOK'
  <2>1. items[r] \in Seq(Row)
    BY DEF TypeOK
  <2> QED  BY <1>12, <2>1, AnswerTyped DEF EndOfRows, TypeOK
<1>13. ASSUME NEW r \in Requests, QueryFails(r) \/ QueryCancelled(r) PROVE TypeOK'
  BY <1>13, FailTyped DEF QueryFails, QueryCancelled, RepositoryFails, TypeOK
<1>14. ASSUME NEW r \in Requests, ExecuteDetail(r) PROVE TypeOK'
  <2> USE DEF ExecuteDetail
  <2>1. CASE DetailFound(r)
    <3>1. PICK row \in DetailFor(r) : Answer(r, 200, <<row>>)
      BY <2>1 DEF DetailFound
    <3>2. row \in Row
      BY DetailTyped DEF DetailFor, TypeOK
    <3>3. <<row>> \in Seq(Row)
      BY <3>2
    <3> QED  BY <1>14, <3>1, <3>3 DEF Answer, TypeOK
  <2>2. CASE DetailMissing(r)
    BY <1>14, <2>2, FailTyped DEF DetailMissing, RepositoryFails, TypeOK
  <2>3. CASE DetailUnscannable(r)
    BY <1>14, <2>3, FailTyped DEF DetailUnscannable, RepositoryFails, TypeOK
  <2> QED  BY <1>14, <2>1, <2>2, <2>3
<1>15. ASSUME NEW r \in Requests, ClientGone(r) PROVE TypeOK'
  BY <1>15 DEF ClientGone, TypeOK
<1>16. CASE Insert
  <2>1. PICK p \in EditorStamps, e \in EditorStamps :
          Edit(InsertAnnouncement(db, nextId, p, e))
    BY <1>16 DEF Insert
  <2>2. InsertAnnouncement(db, nextId, p, e) \in Database
    BY <1>16, EditsTyped, ServiceAssumption DEF Insert, TypeOK
  <2>3. nextId' \in 1..(MaxId + 1)
    BY <1>16, DataAssumption DEF Insert, Ids
  <2> QED  BY <2>1, <2>2, <2>3, EditTyped
<1>17. CASE SetPeriod
  BY <1>17, EditsTyped, EditTyped, ServiceAssumption DEF SetPeriod, TypeOK
<1>18. CASE Translate
  BY <1>18, EditsTyped, EditTyped DEF Translate, TypeOK
<1>19. CASE DropTranslation
  BY <1>19, EditsTyped, EditTyped DEF DropTranslation, TypeOK
<1>20. CASE Delete
  BY <1>20, EditsTyped, EditTyped DEF Delete, TypeOK
<1>21. CASE Tick
  <2>1. clock + 1 \in Times
    BY <1>21, DataAssumption DEF Tick, Times, TypeOK
  <2> QED  BY <1>21, <2>1, ObserveTyped DEF Tick, TypeOK
<1>22. CASE UNCHANGED vars
  BY <1>22 DEF vars, TypeOK
<1> QED
  BY <1>1, <1>2, <1>3, <1>4, <1>5, <1>6, <1>7, <1>8, <1>9, <1>10, <1>11, <1>12,
     <1>13, <1>14, <1>15, <1>16, <1>17, <1>18, <1>19, <1>20, <1>21, <1>22
     DEF Next, Serve, Progress, Fault, Editor

(* Every variable keeps its type, for any sets of requests and connections *)
(* and any tables (the states of AnnouncementService).                     *)
THEOREM TypeCorrect == Spec => []TypeOK
BY InitTypeOK, NextTypeOK, PTL DEF Spec

-----------------------------------------------------------------------------
(***************************************************************************)
(* II. AnnouncementService: the pool, the tables and the answers.          *)
(***************************************************************************)

(* The pool.                                                               *)

LEMMA InitPool == Init => PoolAccounting
BY DEF Init, PoolAccounting

(* An answer returns whatever the request held.                            *)
LEMMA AnswerPool ==
    ASSUME TypeOK, PoolAccounting, NEW r \in Requests, NEW code, NEW body,
           Answer(r, code, body)
    PROVE  PoolAccounting'
BY DEF TypeOK, PoolAccounting, Answer

LEMMA NextPool == TypeOK /\ PoolAccounting /\ [Next]_vars => PoolAccounting'
<1> SUFFICES ASSUME TypeOK, PoolAccounting, [Next]_vars PROVE PoolAccounting'
  OBVIOUS
<1> USE DEF serving
<1>1. ASSUME NEW r \in Requests, NEW code, NEW body, Answer(r, code, body)
      PROVE  PoolAccounting'
  BY <1>1, AnswerPool
<1>2. ASSUME NEW r \in Requests, Serve(r) PROVE PoolAccounting'
  <2>1. CASE ServeHealth(r) \/ RejectId(r) \/ RejectLang(r)
    BY <1>1, <2>1 DEF ServeHealth, RejectId, RejectLang, Fail
  <2>2. CASE StartList(r) \/ StartDetail(r)
    <3>1. pc[r] = "idle" /\ Enqueue(r)
      BY <2>2 DEF StartList, StartDetail, Begin
    <3> QED  BY <3>1 DEF Enqueue, PoolAccounting, TypeOK
  <2> QED  BY <1>2, <2>1, <2>2 DEF Serve
<1>3. ASSUME NEW r \in Requests, Progress(r) PROVE PoolAccounting'
  <2>1. CASE Acquire(r)
    BY <2>1, ServiceAssumption DEF Acquire, Owned, PoolAccounting, TypeOK
  <2>2. CASE ExecuteList(r)
    BY <2>2 DEF ExecuteList, PoolAccounting, TypeOK
  <2>3. CASE ExecuteDetail(r)
    BY <1>1, <2>3 DEF ExecuteDetail, DetailFound, DetailMissing,
                      DetailUnscannable, RepositoryFails, Fail
  <2>4. CASE ScanRow(r)
    BY <2>4 DEF ScanRow, PoolAccounting
  <2>5. CASE ScanFails(r) \/ EndOfRows(r)
    BY <1>1, <2>5 DEF ScanFails, EndOfRows, RepositoryFails, Fail
  <2> QED  BY <1>3, <2>1, <2>2, <2>3, <2>4, <2>5 DEF Progress
<1>4. ASSUME NEW r \in Requests, Fault(r) PROVE PoolAccounting'
  <2>1. CASE \/ DialFails(r) \/ QueryFails(r)
             \/ AcquireCancelled(r) \/ QueryCancelled(r)
    BY <1>1, <2>1 DEF DialFails, AcquireCancelled, QueryFails, QueryCancelled,
                      RepositoryFails, Fail
  <2>2. CASE ClientGone(r)
    BY <2>2 DEF ClientGone, PoolAccounting
  <2> QED  BY <1>4, <2>1, <2>2 DEF Fault
<1>5. CASE Editor \/ Tick \/ UNCHANGED vars
  BY <1>5 DEF Editor, Insert, SetPeriod, Translate, DropTranslation, Delete,
              Edit, Tick, vars, PoolAccounting
<1> QED  BY <1>2, <1>3, <1>4, <1>5 DEF Next

(* A connection is owned by one request at most, and by none outside its   *)
(* query: no path of ListPublished or GetPublishedDetail leaks one.        *)
THEOREM PoolNeverLeaks == Spec => []PoolAccounting
BY InitTypeOK, NextTypeOK, InitPool, NextPool, PTL DEF Spec

-----------------------------------------------------------------------------
(* The queue: whoever waits is in it, once, so that the turn comes.        *)

Queued(s, r) == \E i \in 1..Len(s) : s[i] = r
Distinct(s) == \A i, j \in 1..Len(s) : s[i] = s[j] => i = j

LEMMA Joins ==
    ASSUME NEW S, NEW s \in Seq(S), NEW x \in S, Distinct(s), ~Queued(s, x)
    PROVE  /\ Distinct(Append(s, x))
           /\ \A r : Queued(Append(s, x), r) <=> Queued(s, r) \/ r = x
<1> DEFINE t == Append(s, x)
<1>1. /\ Len(s) \in Nat /\ Len(t) = Len(s) + 1
      /\ \A i \in 1..Len(s) : t[i] = s[i]
      /\ t[Len(s) + 1] = x
  BY AppendProperties, LenProperties
<1> HIDE DEF t
<1>2. \A i \in 1..Len(t) : i \in 1..Len(s) \/ i = Len(s) + 1
  BY <1>1
<1>3. 1..Len(s) \subseteq 1..Len(t) /\ Len(s) + 1 \in 1..Len(t)
  BY <1>1
<1>4. Distinct(t)
  BY <1>1, <1>2 DEF Distinct, Queued
<1>5. \A r : Queued(t, r) <=> Queued(s, r) \/ r = x
  BY <1>1, <1>2, <1>3 DEF Queued
<1> QED  BY <1>4, <1>5 DEF t

(* Without its i-th place. *)
Without(s, i, t) ==
    /\ Len(t) = Len(s) - 1
    /\ \A j \in 1..Len(t) : t[j] = IF j < i THEN s[j] ELSE s[j + 1]

LEMMA Leaves ==
    ASSUME NEW S, NEW s \in Seq(S), NEW t \in Seq(S), NEW i \in 1..Len(s),
           Distinct(s), Without(s, i, t)
    PROVE  /\ Distinct(t)
           /\ \A r : Queued(t, r) <=> Queued(s, r) /\ r # s[i]
<1>1. Len(s) \in Nat /\ Len(t) \in Nat /\ i \in Nat
  BY LenProperties
<1> DEFINE place(j) == IF j < i THEN j ELSE j + 1
<1>2. \A j \in 1..Len(t) :
        place(j) \in 1..Len(s) /\ place(j) # i /\ t[j] = s[place(j)]
  BY <1>1 DEF Without
<1>3. \A j, k \in 1..Len(t) : place(j) = place(k) => j = k
  BY <1>1
<1>4. \A k \in 1..Len(s) : k # i => \E j \in 1..Len(t) : place(j) = k
  <2> SUFFICES ASSUME NEW k \in 1..Len(s), k # i
               PROVE  \E j \in 1..Len(t) : place(j) = k
    OBVIOUS
  <2>1. CASE k < i
    <3>1. k \in 1..Len(t) /\ place(k) = k
      BY <1>1, <2>1 DEF Without
    <3> QED  BY <3>1
  <2>2. CASE k > i
    <3>1. k - 1 \in 1..Len(t) /\ place(k - 1) = k
      BY <1>1, <2>2 DEF Without
    <3> QED  BY <3>1
  <2> QED  BY <1>1, <2>1, <2>2
<1> HIDE DEF place
<1>5. Distinct(t)
  BY <1>2, <1>3 DEF Distinct
<1>6. ASSUME NEW r, Queued(t, r) PROVE Queued(s, r) /\ r # s[i]
  BY <1>2, <1>6 DEF Distinct, Queued
<1>7. ASSUME NEW r, Queued(s, r), r # s[i] PROVE Queued(t, r)
  BY <1>2, <1>4, <1>7 DEF Queued
<1> QED  BY <1>5, <1>6, <1>7

LEMMA TailWithout ==
    ASSUME NEW S, NEW s \in Seq(S), s # <<>>
    PROVE  /\ 1 \in 1..Len(s) /\ Head(s) = s[1]
           /\ Tail(s) \in Seq(S) /\ Without(s, 1, Tail(s))
<1>1. Len(s) \in Nat /\ Len(s) # 0
  BY LenProperties, EmptySeq
<1>2. /\ Head(s) = s[1] /\ Tail(s) \in Seq(S) /\ Len(Tail(s)) = Len(s) - 1
      /\ \A j \in 1..Len(Tail(s)) : Tail(s)[j] = s[j + 1]
  BY HeadTailProperties
<1> QED  BY <1>1, <1>2 DEF Without

LEMMA RemoveAtWithout ==
    ASSUME NEW S, NEW s \in Seq(S), NEW i \in 1..Len(s)
    PROVE  RemoveAt(s, i) \in Seq(S) /\ Without(s, i, RemoveAt(s, i))
<1> DEFINE a == SubSeq(s, 1, i - 1)
           b == SubSeq(s, i + 1, Len(s))
<1>1. Len(s) \in Nat /\ i \in Nat /\ 1 <= i /\ i <= Len(s)
  BY LenProperties
<1>2. /\ a \in Seq(S) /\ Len(a) = i - 1
      /\ \A j \in 1..(i - 1) : a[j] = s[j]
  BY <1>1
<1>3. /\ b \in Seq(S) /\ Len(b) = Len(s) - i
      /\ \A j \in 1..(Len(s) - i) : b[j] = s[i + j]
  BY <1>1
<1> HIDE DEF a, b
<1>4. /\ a \o b \in Seq(S) /\ Len(a \o b) = Len(a) + Len(b)
      /\ \A j \in 1..(Len(a) + Len(b)) :
            (a \o b)[j] = IF j <= Len(a) THEN a[j] ELSE b[j - Len(a)]
  BY <1>2, <1>3, ConcatProperties
<1>5. Len(a) + Len(b) = Len(s) - 1
  BY <1>1, <1>2, <1>3
<1>6. ASSUME NEW j \in 1..(Len(s) - 1)
      PROVE  (a \o b)[j] = IF j < i THEN s[j] ELSE s[j + 1]
  <2>1. CASE j < i
    <3>1. j \in 1..(i - 1) /\ j <= Len(a)
      BY <1>1, <1>2, <2>1
    <3> QED  BY <1>2, <1>4, <1>5, <2>1, <3>1
  <2>2. CASE ~(j < i)
    <3>1. ~(j <= Len(a)) /\ j - Len(a) \in 1..(Len(s) - i) /\ i + (j - Len(a)) = j + 1
      BY <1>1, <1>2, <2>2
    <3> QED  BY <1>3, <1>4, <1>5, <2>2, <3>1
  <2> QED  BY <2>1, <2>2
<1> QED  BY <1>4, <1>5, <1>6 DEF a, b, Without, RemoveAt

QueueInv ==
    /\ Distinct(waiting)
    /\ \A r \in Requests : Queued(waiting, r) <=> pc[r] = "waiting"

LEMMA LeavesQueue ==
    ASSUME TypeOK, QueueInv, NEW r \in Requests, NEW i \in 1..Len(waiting),
           waiting[i] = r, waiting' \in Seq(Requests), Without(waiting, i, waiting'),
           pc' = [pc EXCEPT ![r] = pc'[r]], pc'[r] # "waiting"
    PROVE  QueueInv'
<1>1. /\ Distinct(waiting')
      /\ \A s : Queued(waiting', s) <=> Queued(waiting, s) /\ s # r
  BY Leaves DEF TypeOK, QueueInv
<1> QED  BY <1>1 DEF TypeOK, QueueInv

LEMMA KeepsQueue ==
    ASSUME TypeOK, QueueInv, UNCHANGED waiting,
           \A r \in Requests : pc'[r] = "waiting" <=> pc[r] = "waiting"
    PROVE  QueueInv'
BY DEF QueueInv

LEMMA NextQueue == TypeOK /\ QueueInv /\ [Next]_vars => QueueInv'
<1> SUFFICES ASSUME TypeOK, QueueInv, [Next]_vars PROVE QueueInv'
  OBVIOUS
<1> USE DEF serving
<1>1. ASSUME NEW r \in Requests, NEW code, NEW body, Answer(r, code, body)
      PROVE  pc' = [pc EXCEPT ![r] = pc'[r]] /\ pc'[r] = "done"
  BY <1>1 DEF Answer, TypeOK
<1>2. ASSUME NEW r \in Requests, NEW code, NEW body, Answer(r, code, body),
             pc[r] # "waiting", UNCHANGED waiting
      PROVE  QueueInv'
  BY <1>1, <1>2, KeepsQueue DEF TypeOK
<1>3. ASSUME NEW r \in Requests, Serve(r) PROVE QueueInv'
  <2>1. CASE ServeHealth(r) \/ RejectId(r) \/ RejectLang(r)
    BY <1>2, <2>1 DEF ServeHealth, RejectId, RejectLang, Fail, Begin
  <2>2. CASE StartList(r) \/ StartDetail(r)
    <3>1. pc[r] = "idle" /\ Enqueue(r)
      BY <2>2 DEF StartList, StartDetail, Begin
    <3>2. ~Queued(waiting, r)
      BY <3>1 DEF QueueInv
    <3>3. /\ Distinct(waiting')
          /\ \A s : Queued(waiting', s) <=> Queued(waiting, s) \/ s = r
      BY <3>1, <3>2, Joins DEF Enqueue, QueueInv, TypeOK
    <3> QED  BY <3>1, <3>3 DEF Enqueue, QueueInv, TypeOK
  <2> QED  BY <1>3, <2>1, <2>2 DEF Serve
<1>4. ASSUME NEW r \in Requests, InTurn(r), waiting' = Tail(waiting),
             pc' = [pc EXCEPT ![r] = pc'[r]], pc'[r] # "waiting"
      PROVE  QueueInv'
  BY <1>4, TailWithout, LeavesQueue DEF InTurn, TypeOK
<1>5. ASSUME NEW r \in Requests, Progress(r) PROVE QueueInv'
  <2>1. CASE Acquire(r)
    <3>1. pc' = [pc EXCEPT ![r] = pc'[r]] /\ pc'[r] # "waiting"
      BY <2>1 DEF Acquire, TypeOK
    <3> QED  BY <1>4, <2>1, <3>1 DEF Acquire
  <2>2. CASE ExecuteList(r) \/ ScanRow(r)
    BY <2>2, KeepsQueue DEF ExecuteList, ScanRow, TypeOK
  <2>3. CASE ExecuteDetail(r)
    BY <1>2, <2>3 DEF ExecuteDetail, DetailFound, DetailMissing,
                      DetailUnscannable, RepositoryFails, Fail
  <2>4. CASE ScanFails(r) \/ EndOfRows(r)
    BY <1>2, <2>4 DEF ScanFails, EndOfRows, RepositoryFails, Fail
  <2> QED  BY <1>5, <2>1, <2>2, <2>3, <2>4 DEF Progress
<1>6. ASSUME NEW r \in Requests, Fault(r) PROVE QueueInv'
  <2>1. CASE DialFails(r)
    BY <1>1, <1>4, <2>1 DEF DialFails, RepositoryFails, Fail
  <2>2. CASE AcquireCancelled(r)
    <3>1. PICK i \in DOMAIN waiting :
            waiting[i] = r /\ waiting' = RemoveAt(waiting, i)
      BY <2>2 DEF AcquireCancelled
    <3>2. i \in 1..Len(waiting)
      BY <3>1, LenProperties DEF TypeOK
    <3>3. waiting' \in Seq(Requests) /\ Without(waiting, i, waiting')
      BY <3>1, <3>2, RemoveAtWithout DEF TypeOK
    <3>4. pc' = [pc EXCEPT ![r] = pc'[r]] /\ pc'[r] # "waiting"
      BY <1>1, <2>2 DEF AcquireCancelled, RepositoryFails, Fail
    <3> QED  BY <3>1, <3>2, <3>3, <3>4, LeavesQueue
  <2>3. CASE QueryFails(r) \/ QueryCancelled(r)
    BY <1>2, <2>3 DEF QueryFails, QueryCancelled, RepositoryFails, Fail
  <2>4. CASE ClientGone(r)
    BY <2>4, KeepsQueue DEF ClientGone
  <2> QED  BY <1>6, <2>1, <2>2, <2>3, <2>4 DEF Fault
<1>7. CASE Editor \/ Tick \/ UNCHANGED vars
  BY <1>7, KeepsQueue DEF Editor, Insert, SetPeriod, Translate, DropTranslation, Delete,
              Edit, Tick, vars
<1> QED  BY <1>3, <1>5, <1>6, <1>7 DEF Next

(* The safety half of EveryRequestAnswered, for any number of requests and *)
(* connections (announcement_repo.go:31, 68).                              *)
THEOREM TurnsCome == Spec => []NobodyIsStranded
<1>1. Init => QueueInv
  BY DEF Init, QueueInv, Queued, Distinct
<1>2. TypeOK /\ PoolAccounting /\ QueueInv => NobodyIsStranded
  <2> SUFFICES ASSUME TypeOK, PoolAccounting, QueueInv,
                      NEW r \in Requests, pc[r] = "waiting"
               PROVE  /\ \E i \in 1..Len(waiting) : waiting[i] = r
                      /\ pc[Head(waiting)] = "waiting"
                      /\ \/ InTurn(Head(waiting))
                         \/ \A c \in Conns : \E s \in Requests :
                              conn[s] = c /\ pc[s] \in {"querying", "rows"}
    BY DEF NobodyIsStranded
  <2>1. PICK i \in 1..Len(waiting) : waiting[i] = r
    BY DEF QueueInv, Queued
  <2>2. waiting # <<>>
    BY <2>1, LenProperties, EmptySeq DEF TypeOK
  <2>3. 1 \in 1..Len(waiting) /\ Head(waiting) = waiting[1] /\ waiting[1] \in Requests
    BY <2>2, TailWithout, ElementOfSeq DEF TypeOK
  <2>4. pc[Head(waiting)] = "waiting"
    BY <2>3 DEF QueueInv, Queued
  <2>5. CASE Conns \ Owned # {}
    BY <2>1, <2>2, <2>4, <2>5 DEF InTurn
  <2>6. CASE Conns \ Owned = {}
    <3>1. ASSUME NEW c \in Conns
          PROVE  \E s \in Requests : conn[s] = c /\ pc[s] \in {"querying", "rows"}
      <4>1. PICK s \in Requests : conn[s] = c
        BY <2>6, <3>1 DEF Owned
      <4> QED  BY <4>1, ServiceAssumption DEF PoolAccounting
    <3> QED  BY <2>1, <2>4, <3>1
  <2> QED  BY <2>5, <2>6
<1> QED
  BY <1>1, <1>2, InitTypeOK, NextTypeOK, InitPool, NextPool, NextQueue, PTL DEF Spec

-----------------------------------------------------------------------------
(* The tables.  An id still to be drawn is above every id in use.          *)

TablesInv ==
    /\ WellFormed(db)
    /\ \A a \in db.announcements : a.announcement_id < nextId

LEMMA InitTables == Init => TablesInv
BY ServiceAssumption DEF Init, TablesInv

LEMMA NextTables == TypeOK /\ TablesInv /\ [Next]_vars => TablesInv'
<1> SUFFICES ASSUME TypeOK, TablesInv, [Next]_vars PROVE TablesInv'
  OBVIOUS
<1> USE DEF TablesInv
<1>0. /\ db \in Database /\ nextId \in Nat
      /\ db.announcements \subseteq Announcement
      /\ \A a \in db.announcements : a.announcement_id \in Nat
  BY DataAssumption DEF TypeOK, Database, Announcement, Ids
<1>1. CASE Insert
  <2>1. PICK p \in EditorStamps, e \in EditorStamps :
          db' = InsertAnnouncement(db, nextId, p, e)
    BY <1>1 DEF Insert, Edit
  <2>2. \A a \in db.announcements : a.announcement_id # nextId
    BY <1>0
  <2>3. WellFormed(db')
    BY <1>0, <1>1, <2>1, <2>2, EditsWellFormed DEF Insert
  <2>4. db'.announcements = db.announcements \cup
          {[announcement_id |-> nextId, published_at |-> p, expires_at |-> e]}
    BY <1>0, <2>1 DEF InsertAnnouncement, Database
  <2>5. nextId' = nextId + 1
    BY <1>1 DEF Insert
  <2> QED  BY <1>0, <2>3, <2>4, <2>5
<1>2. CASE SetPeriod
  <2>1. PICK a \in db.announcements, p \in EditorStamps, e \in EditorStamps :
          db' = UpdatePeriod(db, a, p, e)
    BY <1>2 DEF SetPeriod, Edit
  <2>2. WellFormed(db')
    BY <1>0, <2>1, EditsWellFormed
  <2>3. db'.announcements = (db.announcements \ {a}) \cup
          {[a EXCEPT !.published_at = p, !.expires_at = e]}
    BY <1>0, <2>1 DEF UpdatePeriod, Database
  <2>4. [a EXCEPT !.published_at = p, !.expires_at = e].announcement_id
          = a.announcement_id
    BY <1>0 DEF Announcement
  <2> QED  BY <1>2, <2>2, <2>3, <2>4 DEF SetPeriod
<1>3. CASE Translate
  <2>1. PICK a \in db.announcements, lang \in StoredLangs, title \in Titles :
          db' = PutTranslation(db, a.announcement_id, lang, title)
    BY <1>3 DEF Translate, Edit
  <2>2. WellFormed(db')
    BY <1>0, <2>1, EditsWellFormed
  <2>3. db'.announcements = db.announcements
    BY <1>0, <2>1 DEF PutTranslation, Database
  <2> QED  BY <1>3, <2>2, <2>3 DEF Translate
<1>4. CASE DropTranslation
  <2>1. PICK t \in db.translations : db' = RemoveTranslation(db, t)
    BY <1>4 DEF DropTranslation, Edit
  <2>2. WellFormed(db')
    BY <1>0, <2>1, EditsWellFormed
  <2>3. db'.announcements = db.announcements
    BY <1>0, <2>1 DEF RemoveTranslation, Database
  <2> QED  BY <1>4, <2>2, <2>3 DEF DropTranslation
<1>5. CASE Delete
  <2>1. PICK a \in db.announcements : db' = DeleteAnnouncement(db, a)
    BY <1>5 DEF Delete, Edit
  <2>2. WellFormed(db')
    BY <1>0, <2>1, EditsWellFormed
  <2>3. db'.announcements \subseteq db.announcements
    BY <2>1 DEF DeleteAnnouncement
  <2> QED  BY <1>5, <2>2, <2>3 DEF Delete
<1>6. ASSUME UNCHANGED <<db, nextId>> PROVE TablesInv'
  BY <1>6
<1>7. ASSUME NEW r \in Requests, Serve(r) \/ Progress(r) \/ Fault(r)
      PROVE  UNCHANGED <<db, nextId>>
  BY <1>7 DEF Serve, Progress, Fault, ServeHealth, RejectId, RejectLang, StartList,
       StartDetail, Begin, Acquire, ExecuteList, ExecuteDetail, ScanRow, ScanFails,
       EndOfRows, DialFails, AcquireCancelled, QueryFails, QueryCancelled, ClientGone,
       tables
<1>8. CASE Tick \/ UNCHANGED vars
  BY <1>6, <1>8 DEF Tick, vars, tables
<1> QED  BY <1>1, <1>2, <1>3, <1>4, <1>5, <1>6, <1>7, <1>8 DEF Next, Editor

(* Primary keys and the foreign key survive every sequence of edits.       *)
THEOREM TablesStayWellFormed == Spec => []TablesWellFormed
<1>1. TablesInv => TablesWellFormed
  BY DEF TablesInv, TablesWellFormed
<1> QED  BY <1>1, InitTypeOK, NextTypeOK, InitTables, NextTables, PTL DEF Spec
-----------------------------------------------------------------------------
(* The answers.  While a list is read, the rows scanned and the rows to    *)
(* come are together the listing of one version seen by the request; the   *)
(* scanned ones are in order and before the others.                        *)

Reading(r) ==
    /\ \E d \in Versions(r) :
            ToSet(items[r]) \cup rest[r] = Listing(d, query[r].lang, now[r])
    /\ Ordered(items[r])
    /\ \A i \in DOMAIN items[r], row \in rest[r] : Before(items[r][i], row)

RequestInv(r) ==
    /\ pc[r] # "done" => status[r] = 0
    /\ pc[r] \in {"idle", "waiting", "querying"} => items[r] = <<>>
    /\ Open(r) => /\ Instant \in window[r]
                  /\ query[r] \in Queries
                  /\ query[r].op \in {"list", "detail"}
                  /\ query[r].op = "list" => now[r] \in Instants(r)
    /\ pc[r] = "rows" => query[r].op = "list" /\ Reading(r)
    /\ ListExact(r) /\ FoundExact(r) /\ MissingExact(r) /\ HasCause(r)

(* What other requests, editors and the clock do leaves a request's        *)
(* invariant alone, as long as an open request records the new instant.    *)
LEMMA Frame ==
    ASSUME NEW r, RequestInv(r),
           pc'[r] = pc[r], status'[r] = status[r], items'[r] = items[r],
           rest'[r] = rest[r], query'[r] = query[r], now'[r] = now[r],
           window[r] \subseteq window'[r],
           Open(r) => Instant' \in window'[r],
           r \in gone => r \in gone',
           r \in faulted => r \in faulted'
    PROVE  RequestInv(r)'
<1>1. Versions(r) \subseteq Versions(r)' /\ Instants(r) \subseteq Instants(r)'
  BY DEF Versions, Instants
<1>2. Reading(r) => Reading(r)'
  BY <1>1 DEF Reading
<1>3. Poisoned(r) => Poisoned(r)'
  BY <1>1 DEF Poisoned
<1>4. ListExact(r)' /\ FoundExact(r)' /\ MissingExact(r)'
  BY <1>1 DEF RequestInv, ListExact, FoundExact, MissingExact, Answered
<1>5. HasCause(r)'
  BY <1>3 DEF RequestInv, HasCause
<1> QED  BY <1>1, <1>2, <1>4, <1>5 DEF RequestInv, Open

(* An error other than the port's sentinel is a 500; only a malformed or   *)
(* missing detail is a 404.                                                *)
LEMMA OtherIs500 == \A op : errorStatus(usecaseError(op, "other")) = 500
BY DEF usecaseError, errorStatus

LEMMA NotFoundIs404 == errorStatus(usecaseError("detail", "port.ErrNotFound")) = 404
BY DEF usecaseError, errorStatus

LEMMA LangIs400 ==
    ASSUME NEW lang, validateLang(lang) # "nil"
    PROVE  errorStatus(validateLang(lang)) = 400
<1>1. validateLang(lang) \in {"ErrLangRequired", "ErrUnsupportedLang"}
  BY DEF validateLang, SupportedLangs
<1> QED  BY <1>1 DEF errorStatus

(* An open request that answers 500 for a cause satisfies its invariant.   *)
LEMMA FailureAnswer ==
    ASSUME TypeOK, NEW r \in Requests, RequestInv(r), Open(r),
           RepositoryFails(r, "other"),
           UNCHANGED <<query, window>>,
           gone' = gone, faulted \subseteq faulted',
           r \in gone \/ r \in faulted' \/ Poisoned(r)
    PROVE  RequestInv(r)'
<1>1. status'[r] = 500 /\ pc'[r] = "done"
  BY OtherIs500 DEF RepositoryFails, Fail, Answer, TypeOK
<1>2. HasCause(r)'
  BY DEF HasCause, Poisoned, Versions, Instants
<1> QED
  BY <1>1, <1>2 DEF RequestInv, Open, ListExact, FoundExact, MissingExact
LEMMA InitRequests == Init => \A r \in Requests : RequestInv(r)
BY DEF Init, RequestInv, Open, ListExact, FoundExact, MissingExact, HasCause, Answered

LEMMA NextRequests ==
    TypeOK /\ TablesInv /\ (\A r \in Requests : RequestInv(r)) /\ [Next]_vars
        => \A r \in Requests : RequestInv(r)'
<1> SUFFICES ASSUME TypeOK, TablesInv, \A r \in Requests : RequestInv(r), [Next]_vars
             PROVE  \A s \in Requests : RequestInv(s)'
  OBVIOUS
<1> USE DEF tables, serving
\* A step of request r is framed for every other request.
<1>1. ASSUME NEW r \in Requests, NEW s \in Requests, s # r,
             Serve(r) \/ Progress(r) \/ Fault(r)
      PROVE  RequestInv(s)'
  <2>1. /\ pc'[s] = pc[s] /\ status'[s] = status[s] /\ items'[s] = items[s]
        /\ rest'[s] = rest[s] /\ query'[s] = query[s] /\ now'[s] = now[s]
        /\ window'[s] = window[s] /\ UNCHANGED <<db, clock>>
        /\ gone \subseteq gone' /\ faulted \subseteq faulted'
    BY <1>1 DEF Serve, Progress, Fault, ServeHealth, RejectId, RejectLang, StartList,
         StartDetail, Begin, Enqueue, Acquire, ExecuteList, ExecuteDetail, DetailFound,
         DetailMissing, DetailUnscannable, ScanRow, ScanFails, EndOfRows, DialFails,
         AcquireCancelled, QueryFails, QueryCancelled, ClientGone, RepositoryFails,
         Fail, Answer, TypeOK
  <2>2. Open(s) => Instant' \in window'[s]
    BY <2>1 DEF RequestInv, Instant
  <2> QED  BY <2>1, <2>2, Frame
<1>2. ASSUME NEW r \in Requests, Serve(r) PROVE RequestInv(r)'
  <2>1. PICK q \in Queries : Begin(r, q) /\
          \/ q.op = "health" /\ Answer(r, 200, <<>>)
          \/ q.op = "detail" /\ q.id = NULL /\ Answer(r, 404, <<>>)
          \/ validateLang(q.lang) # "nil" /\ Fail(r, validateLang(q.lang))
          \/ q.op = "list" /\ now' = [now EXCEPT ![r] = clock] /\ Enqueue(r)
          \/ q.op = "detail" /\ Enqueue(r)
    BY <1>2 DEF Serve, ServeHealth, RejectId, RejectLang, StartList, StartDetail
  <2>2. /\ pc[r] = "idle" /\ query'[r] = q /\ window'[r] = {Instant}
        /\ UNCHANGED <<db, clock>>
    BY <2>1 DEF Begin, TypeOK
  <2>3. CASE q.op = "health" /\ Answer(r, 200, <<>>)
    <3>1. pc'[r] = "done" /\ status'[r] = 200
      BY <2>3 DEF Answer, TypeOK
    <3> QED  BY <2>2, <2>3, <3>1 DEF RequestInv, Open, ListExact, FoundExact,
                MissingExact, HasCause, Answered
  <2>4. CASE q.op = "detail" /\ q.id = NULL /\ Answer(r, 404, <<>>)
    <3>1. pc'[r] = "done" /\ status'[r] = 404
      BY <2>4 DEF Answer, TypeOK
    <3> QED  BY <2>2, <2>4, <3>1 DEF RequestInv, Open, ListExact, FoundExact,
                MissingExact, HasCause, Answered
  <2>5. CASE validateLang(q.lang) # "nil" /\ Fail(r, validateLang(q.lang))
    <3>1. pc'[r] = "done" /\ status'[r] = 400
      BY <2>5, LangIs400 DEF Fail, Answer, TypeOK
    <3> QED  BY <2>2, <3>1 DEF RequestInv, Open, ListExact, FoundExact,
                MissingExact, HasCause, Answered
  <2>6. CASE Enqueue(r) /\
          ((q.op = "list" /\ now' = [now EXCEPT ![r] = clock]) \/ q.op = "detail")
    <3>1. /\ pc'[r] = "waiting" /\ items'[r] = <<>> /\ status'[r] = 0
      BY <2>2, <2>6 DEF Enqueue, RequestInv, TypeOK
    <3>2. Instant' = Instant
      BY <2>2 DEF Instant
    <3>3. q.op = "list" => now'[r] \in Instants(r)'
      BY <2>2, <2>6 DEF Instants, Instant, TypeOK
    <3> QED  BY <2>2, <2>6, <3>1, <3>2, <3>3 DEF RequestInv, Open, ListExact,
                FoundExact, MissingExact, HasCause, Answered
  <2> QED  BY <2>1, <2>3, <2>4, <2>5, <2>6
<1>3. ASSUME NEW r \in Requests, Acquire(r) PROVE RequestInv(r)'
  <2>1. /\ pc[r] = "waiting" /\ pc'[r] = "querying"
        /\ UNCHANGED <<db, clock, query, now, items, status, gone, faulted, window>>
    BY <1>3 DEF Acquire, TypeOK
  <2> QED  BY <2>1 DEF RequestInv, Open, Instants, Instant, ListExact, FoundExact,
              MissingExact, HasCause, Answered
<1>4. ASSUME NEW r \in Requests, ExecuteList(r) PROVE RequestInv(r)'
  <2>1. /\ pc[r] = "querying" /\ query[r].op = "list" /\ pc'[r] = "rows"
        /\ rest'[r] = Listing(db, query[r].lang, now[r])
        /\ UNCHANGED <<db, clock, query, now, items, status, gone, faulted, window>>
    BY <1>4 DEF ExecuteList, TypeOK
  <2>2. items[r] = <<>> /\ Instant \in window[r] /\ status[r] = 0
    BY <2>1 DEF RequestInv, Open
  <2>3. db \in Versions(r)
    BY <2>2 DEF Versions, Instant
  <2>4. ToSet(items[r]) = {} /\ DOMAIN items[r] = {}
    BY <2>2 DEF ToSet
  <2>5. Reading(r)'
    BY <2>1, <2>3, <2>4 DEF Reading, Versions, Ordered
  <2> QED  BY <2>1, <2>2, <2>5 DEF RequestInv, Open, Instants, Instant, ListExact,
              FoundExact, MissingExact, HasCause, Answered
<1>5. ASSUME NEW r \in Requests, ScanRow(r) PROVE RequestInv(r)'
  <2>1. PICK row \in rest[r] : First(r, row) /\
          /\ items' = [items EXCEPT ![r] = Append(@, row)]
          /\ rest' = [rest EXCEPT ![r] = @ \ {row}]
    BY <1>5 DEF ScanRow
  <2>2. /\ pc[r] = "rows"
        /\ UNCHANGED <<db, clock, pc, query, now, status, gone, faulted, window>>
    BY <1>5 DEF ScanRow
  <2>3. Reading(r) /\ status[r] = 0 /\ items[r] \in Seq(Row)
    BY <2>2 DEF RequestInv, TypeOK
  <2>4. items'[r] = Append(items[r], row) /\ rest'[r] = rest[r] \ {row}
    BY <2>1 DEF TypeOK
  <2>5. /\ DOMAIN items'[r] = DOMAIN items[r] \cup {Len(items[r]) + 1}
        /\ items'[r][Len(items[r]) + 1] = row
        /\ \A i \in DOMAIN items[r] : items'[r][i] = items[r][i]
        /\ \A i \in DOMAIN items[r] : i \in 1..Len(items[r])
    BY <2>3, <2>4
  <2>6. ToSet(items'[r]) \cup rest'[r] = ToSet(items[r]) \cup rest[r]
    BY <2>4, <2>5 DEF ToSet
  <2>7. Ordered(items'[r])
    BY <2>3, <2>5 DEF Reading, Ordered
  <2>8. \A i \in DOMAIN items'[r], other \in rest'[r] : Before(items'[r][i], other)
    BY <2>1, <2>3, <2>4, <2>5 DEF Reading, First
  <2>9. Reading(r)'
    BY <2>2, <2>3, <2>6, <2>7, <2>8 DEF Reading, Versions
  <2> QED  BY <2>2, <2>3, <2>9 DEF RequestInv, Open, Instants, Instant, ListExact,
              FoundExact, MissingExact, HasCause, Answered
<1>6. ASSUME NEW r \in Requests, ScanFails(r) PROVE RequestInv(r)'
  <2>1. /\ pc[r] = "rows" /\ RepositoryFails(r, "other")
        /\ UNCHANGED <<query, window, gone, faulted>>
    BY <1>6 DEF ScanFails
  <2>2. PICK row \in rest[r] : ~Scannable(row.published_at)
    BY <1>6 DEF ScanFails
  <2>3. /\ \E d \in Versions(r) : row \in Listing(d, query[r].lang, now[r])
        /\ now[r] \in Instants(r)
    BY <2>1 DEF RequestInv, Reading, Open
  <2>4. Poisoned(r)
    BY <2>2, <2>3 DEF Poisoned
  <2> QED  BY <2>1, <2>4, FailureAnswer DEF Open
<1>7. ASSUME NEW r \in Requests, EndOfRows(r) PROVE RequestInv(r)'
  <2>1. /\ pc[r] = "rows" /\ rest[r] = {} /\ Answer(r, 200, items[r])
        /\ UNCHANGED <<query, window>>
    BY <1>7 DEF EndOfRows
  <2>2. pc'[r] = "done" /\ status'[r] = 200 /\ items'[r] = items[r]
    BY <2>1 DEF Answer, TypeOK
  <2>3. query[r].op = "list" /\ Reading(r) /\ now[r] \in Instants(r)
    BY <2>1 DEF RequestInv, Open
  <2>4. ListExact(r)'
    <3>1. PICK d \in Versions(r) : ToSet(items[r]) = Listing(d, query[r].lang, now[r])
      BY <2>1, <2>3 DEF Reading
    <3> QED  BY <2>1, <2>2, <2>3, <3>1 DEF ListExact, Reading, Versions, Instants
  <2> QED  BY <2>1, <2>2, <2>3, <2>4 DEF RequestInv, Open, FoundExact, MissingExact,
              HasCause, Answered
<1>8. ASSUME NEW r \in Requests, ExecuteDetail(r) PROVE RequestInv(r)'
  <2>1. /\ pc[r] = "querying" /\ query[r].op = "detail"
        /\ UNCHANGED <<query, window, gone, faulted>>
    BY <1>8 DEF ExecuteDetail
  <2>2. /\ db \in Versions(r)
        /\ clock \in Instants(r)
    BY <2>1 DEF RequestInv, Open, Versions, Instants, Instant
  <2>3. CASE DetailFound(r)
    <3>1. PICK row \in DetailFor(r) : Answer(r, 200, <<row>>)
      BY <2>3 DEF DetailFound
    <3>2. pc'[r] = "done" /\ status'[r] = 200 /\ items'[r] = <<row>>
      BY <3>1 DEF Answer, TypeOK
    <3>3. ToSet(<<row>>) = {row}
      BY DEF ToSet
    <3>4. DetailFor(r) = {row}
      BY DetailUnique DEF DetailFor, TablesInv, TypeOK
    <3>5. FoundExact(r)'
      BY <2>1, <2>2, <3>2, <3>3, <3>4 DEF FoundExact, DetailFor, Versions
    <3> QED  BY <2>1, <3>2, <3>5 DEF RequestInv, Open, ListExact, MissingExact,
                HasCause, Answered
  <2>4. CASE DetailMissing(r)
    <3>1. DetailFor(r) = {} /\ pc'[r] = "done" /\ status'[r] = 404
      BY <2>1, <2>4, NotFoundIs404
         DEF DetailMissing, RepositoryFails, Fail, Answer, TypeOK
    <3>2. MissingExact(r)'
      BY <2>1, <2>2, <3>1 DEF MissingExact, DetailFor, Versions, Answered
    <3> QED  BY <2>1, <3>1, <3>2 DEF RequestInv, Open, ListExact, FoundExact,
                HasCause, Answered
  <2>5. CASE DetailUnscannable(r)
    <3>1. PICK row \in DetailFor(r) : ~Scannable(row.published_at)
      BY <2>5 DEF DetailUnscannable
    <3>2. Poisoned(r)
      BY <2>2, <3>1 DEF Poisoned, DetailFor
    <3>3. RepositoryFails(r, "other")
      BY <2>5 DEF DetailUnscannable
    <3> QED  BY <2>1, <3>2, <3>3, FailureAnswer DEF Open
  <2> QED  BY <1>8, <2>3, <2>4, <2>5 DEF ExecuteDetail
<1>9. ASSUME NEW r \in Requests, Fault(r) PROVE RequestInv(r)'
  <2>1. CASE \/ DialFails(r) \/ QueryFails(r)
             \/ AcquireCancelled(r) \/ QueryCancelled(r)
    BY <2>1, FailureAnswer DEF DialFails, AcquireCancelled, QueryFails, QueryCancelled,
         Open
  <2>2. CASE ClientGone(r)
    <3>1. Instant' = Instant
      BY <2>2 DEF ClientGone, Instant
    <3>2. Open(r) => Instant' \in window'[r]
      BY <2>2, <3>1 DEF ClientGone, RequestInv
    <3> QED  BY <2>2, <3>2, Frame DEF ClientGone
  <2> QED  BY <1>9, <2>1, <2>2 DEF Fault
<1>10. ASSUME NEW s \in Requests, Editor \/ Tick PROVE RequestInv(s)'
  <2>1. UNCHANGED <<pc, status, items, rest, query, now, gone, faulted>>
    BY <1>10 DEF Editor, Insert, SetPeriod, Translate, DropTranslation, Delete, Edit,
         Tick
  <2>2. Observe(db', clock')
    BY <1>10 DEF Editor, Insert, SetPeriod, Translate, DropTranslation, Delete, Edit,
         Tick
  <2>3. window[s] \subseteq window'[s] /\ (Open(s) => Instant' \in window'[s])
    BY <2>2 DEF Observe, Instant
  <2> QED  BY <2>1, <2>3, Frame
<1>11. ASSUME NEW s \in Requests, UNCHANGED vars PROVE RequestInv(s)'
  <2>1. Open(s) => Instant' \in window'[s]
    BY <1>11 DEF vars, RequestInv, Instant
  <2> QED  BY <1>11, <2>1, Frame DEF vars
<1>12. ASSUME NEW r \in Requests, Progress(r) PROVE RequestInv(r)'
  BY <1>3, <1>4, <1>5, <1>6, <1>7, <1>8, <1>12 DEF Progress
<1> QED  BY <1>1, <1>2, <1>9, <1>10, <1>11, <1>12 DEF Next

(* The inductive invariant behind every answer.                            *)
AnswersInv == TypeOK /\ TablesInv /\ \A r \in Requests : RequestInv(r)

LEMMA AnswersInductive == Spec => []AnswersInv
<1>1. Init => AnswersInv
  BY InitTypeOK, InitTables, InitRequests DEF AnswersInv
<1>2. AnswersInv /\ [Next]_vars => AnswersInv'
  BY NextTypeOK, NextTables, NextRequests DEF AnswersInv
<1> QED  BY <1>1, <1>2, PTL DEF Spec

(* Every 200 list is exactly one version's listing at one clock reading of *)
(* the request, newest first, for any number of requests and connections.  *)
THEOREM ListsAreExact == Spec => []ListAnswerExact
<1>1. AnswersInv => ListAnswerExact
  BY DEF AnswersInv, RequestInv, ListAnswerExact
<1> QED  BY <1>1, AnswersInductive, PTL

(* Every detail answer, found or not found, is true of a version of the    *)
(* tables current during the request.                                      *)
THEOREM DetailsAreExact == Spec => []DetailAnswerExact
<1>1. AnswersInv => DetailAnswerExact
  BY DEF AnswersInv, RequestInv, DetailAnswerExact
<1> QED  BY <1>1, AnswersInductive, PTL

(* Every 500 is due to a departed client, a failed connection or           *)
(* statement, or a row no time.Time can hold.                              *)
THEOREM FailuresHaveCause == Spec => []FailureHasCause
<1>1. AnswersInv => FailureHasCause
  BY DEF AnswersInv, RequestInv, FailureHasCause
<1> QED  BY <1>1, AnswersInductive, PTL

-----------------------------------------------------------------------------
(***************************************************************************)
(* III. AnnouncementRefinement: AnnouncementService implements             *)
(* AnnouncementReads.                                                      *)
(***************************************************************************)

(* Both specifications read the same tables with the same queries.         *)
LEMMA SameData ==
    /\ Reads!Database = Database
    /\ Reads!Times = Times
    /\ \A d : Reads!WellFormed(d) = WellFormed(d)
<1>1. Reads!Database = Database
  BY DEF Reads!Database, Database, Reads!Announcement, Announcement, Reads!Translation,
         Translation, Reads!Ids, Ids, Reads!Stamps, Stamps, Reads!MinusInfinity,
         MinusInfinity, Reads!PlusInfinity, PlusInfinity
<1>2. Reads!Times = Times
  BY DEF Reads!Times, Times
<1>3. \A d : Reads!WellFormed(d) = WellFormed(d)
  BY DEF Reads!WellFormed, WellFormed, Reads!AnnouncementKey, AnnouncementKey,
         Reads!TranslationKey, TranslationKey, Reads!NoOrphan, NoOrphan
<1> QED  BY <1>1, <1>2, <1>3

LEMMA SameQueries ==
    /\ \A d, lang, t : Reads!Listing(d, lang, t) = Listing(d, lang, t)
    /\ \A d, id, lang : Reads!DetailRows(d, id, lang) = DetailRows(d, id, lang)
    /\ \A a, b : Reads!Before(a, b) <=> Before(a, b)
    /\ \A x : Reads!Scannable(x) <=> Scannable(x)
    /\ \A x : Reads!Renderable(x) <=> Renderable(x)
    /\ \A x : Reads!ToSet(x) = ToSet(x)
<1>1. \A d, lang, t : Reads!Listing(d, lang, t) = Listing(d, lang, t)
  BY DEF Reads!Listing, Listing, Reads!Selected, Selected, Reads!Joined, Joined,
         Reads!Published, Published
<1>2. \A d, id, lang : Reads!DetailRows(d, id, lang) = DetailRows(d, id, lang)
  BY DEF Reads!DetailRows, DetailRows, Reads!Selected, Selected, Reads!Joined, Joined
<1>3. \A a, b : Reads!Before(a, b) <=> Before(a, b)
  BY DEF Reads!Before, Before
<1>4. \A x : Reads!Scannable(x) <=> Scannable(x)
  BY DEF Reads!Scannable, Scannable, Reads!BeforeYear0, BeforeYear0,
         Reads!AfterYear9999, AfterYear9999
<1>5. \A x : Reads!ToSet(x) = ToSet(x)
  BY DEF Reads!ToSet, ToSet
<1>6. \A x : Reads!Renderable(x) <=> Renderable(x)
  BY DEF Reads!Renderable, Renderable, Reads!Times, Times
<1> QED  BY <1>1, <1>2, <1>3, <1>4, <1>5, <1>6

(* The handler refuses what the promise refuses, with the same status.     *)
LEMMA Verdicts ==
    ASSUME NEW q \in Queries
    PROVE  /\ q.op = "health" => Reads!Verdict(q) = 200
           /\ q.op = "detail" /\ q.id = NULL => Reads!Verdict(q) = 404
           /\ \/ q.op = "list"
              \/ q.op = "detail" /\ q.id # NULL
              => IF validateLang(q.lang) = "nil" THEN Reads!Verdict(q) = 0
                                                 ELSE Reads!Verdict(q) = 400
<1>2. "" \notin SupportedLangs
  BY DEF SupportedLangs
<1>3. validateLang(q.lang) = "nil" <=> q.lang \in SupportedLangs
  BY <1>2 DEF validateLang
<1>4. Reads!SupportedLangs = SupportedLangs
  BY DEF Reads!SupportedLangs, SupportedLangs
<1>5. q.op = "health" => Reads!Verdict(q) = 200
  BY DEF Reads!Verdict
<1>6. q.op = "detail" /\ q.id = NULL => Reads!Verdict(q) = 404
  BY DEF Reads!Verdict
<1>7. ASSUME q.op = "list" \/ (q.op = "detail" /\ q.id # NULL)
      PROVE  Reads!Verdict(q) = IF q.lang \in SupportedLangs THEN 0 ELSE 400
  <2>1. q.op # "health" /\ ~(q.op = "detail" /\ q.id = NULL)
    BY <1>7
  <2> QED  BY <2>1, <1>4 DEF Reads!Verdict
<1> QED  BY <1>3, <1>5, <1>6, <1>7

-----------------------------------------------------------------------------
(* What the mapping needs beside AnswersInv: a list's time is past, and    *)
(* whatever was scanned could be.                                          *)
MapInv ==
    \A r \in Requests :
        /\ now[r] <= clock
        /\ pc[r] = "rows" =>
            \A i \in DOMAIN items[r] : Scannable(items[r][i].published_at)

LEMMA InitMap == Init => MapInv
BY DEF Init, MapInv

LEMMA NextMap == AnswersInv /\ MapInv /\ [Next]_vars => MapInv'
<1> SUFFICES ASSUME AnswersInv, MapInv, [Next]_vars PROVE MapInv'
  OBVIOUS
<1>0. TypeOK /\ \A r \in Requests : RequestInv(r)
  BY DEF AnswersInv
<1> USE <1>0 DEF tables, serving, Times
<1>1. ASSUME NEW r \in Requests, Serve(r) PROVE MapInv'
  <2>1. /\ clock' = clock
        /\ now' = now \/ now' = [now EXCEPT ![r] = clock]
    BY <1>1 DEF Serve, ServeHealth, RejectId, RejectLang, StartList, StartDetail, Begin
  <2>2. \/ Enqueue(r)
        \/ \E code, body : Answer(r, code, body)
    BY <1>1 DEF Serve, ServeHealth, RejectId, RejectLang, StartList, StartDetail, Fail
  <2>3. \A s \in Requests : pc'[s] = "rows" => s # r /\ pc[s] = "rows" /\ items'[s] = items[s]
    BY <2>2 DEF Enqueue, Answer, TypeOK
  <2>4. \A s \in Requests : now'[s] \in {now[s], clock}
    BY <2>1 DEF TypeOK
  <2>5. \A s \in Requests : now'[s] <= clock'
    <3>1. clock \in Int /\ \A s \in Requests : now[s] <= clock
      BY DEF MapInv, TypeOK
    <3> QED  BY <2>1, <2>4, <3>1
  <2> QED  BY <2>3, <2>5 DEF MapInv
<1>2. ASSUME NEW r \in Requests, Acquire(r) PROVE MapInv'
  BY <1>2 DEF Acquire, MapInv, TypeOK
<1>3. ASSUME NEW r \in Requests, ExecuteList(r) PROVE MapInv'
  <2>1. items[r] = <<>>
    BY <1>3 DEF ExecuteList, RequestInv
  <2> QED  BY <1>3, <2>1 DEF ExecuteList, MapInv, TypeOK
<1>4. ASSUME NEW r \in Requests, ScanRow(r) PROVE MapInv'
  <2>1. PICK row \in rest[r] :
          /\ Scannable(row.published_at)
          /\ items' = [items EXCEPT ![r] = Append(@, row)]
    BY <1>4 DEF ScanRow
  <2>2. pc[r] = "rows" /\ UNCHANGED <<pc, clock, now>>
    BY <1>4 DEF ScanRow
  <2>3. items[r] \in Seq(Row) /\ items'[r] = Append(items[r], row)
    BY <2>1 DEF TypeOK
  <2>4. \A i \in DOMAIN items'[r] : Scannable(items'[r][i].published_at)
    <3>1. \A i \in DOMAIN items'[r] :
            \/ i \in DOMAIN items[r] /\ items'[r][i] = items[r][i]
            \/ items'[r][i] = row
      BY <2>3
    <3> QED  BY <2>1, <2>2, <3>1 DEF MapInv
  <2>5. \A s \in Requests : s # r => items'[s] = items[s]
    BY <2>1 DEF TypeOK
  <2> QED  BY <2>2, <2>4, <2>5 DEF MapInv
<1>5. ASSUME NEW r \in Requests,
             ScanFails(r) \/ EndOfRows(r) \/ ExecuteDetail(r) \/ Fault(r)
      PROVE  MapInv'
  <2>1. UNCHANGED <<clock, now>>
    BY <1>5 DEF ScanFails, EndOfRows, ExecuteDetail, Fault, DialFails,
         AcquireCancelled, QueryFails, QueryCancelled, ClientGone
  <2>2. \/ UNCHANGED <<pc, items>>
        \/ \E code, body : Answer(r, code, body)
    BY <1>5 DEF ScanFails, EndOfRows, ExecuteDetail, DetailFound, DetailMissing,
         DetailUnscannable, Fault, DialFails, AcquireCancelled, QueryFails,
         QueryCancelled, ClientGone, RepositoryFails, Fail
  <2> QED  BY <2>1, <2>2 DEF Answer, MapInv, TypeOK
<1>6. CASE Editor \/ Tick \/ UNCHANGED vars
  <2>1. UNCHANGED <<pc, items, now>> /\ clock' \in {clock, clock + 1}
    BY <1>6 DEF Editor, Insert, SetPeriod, Translate, DropTranslation, Delete, Edit,
         Tick, vars
  <2> QED  BY <2>1 DEF MapInv, TypeOK
<1> QED  BY <1>1, <1>2, <1>3, <1>4, <1>5, <1>6 DEF Next, Progress

-----------------------------------------------------------------------------
(* Steps.                                                                  *)

LEMMA PhaseValues ==
    /\ PhaseOf["idle"] = "idle"
    /\ PhaseOf["waiting"] = "asked" /\ PhaseOf["querying"] = "asked"
    /\ PhaseOf["rows"] = "looked" /\ PhaseOf["done"] = "answered"
BY DEF PhaseOf

LEMMA InitReads == Init => Reads!ReadsInit
<1> SUFFICES ASSUME Init PROVE Reads!ReadsInit
  OBVIOUS
<1>1. db \in Database /\ WellFormed(db) /\ clock \in Times
  BY ServiceAssumption, DataAssumption DEF Init, Times
<1>2. /\ readPhase = [r \in Requests |-> "idle"]
      /\ readSeen = [r \in Requests |-> {}]
      /\ readRows = [r \in Requests |-> <<>>]
  <2>1. \A r \in Requests : pc[r] = "idle"
    BY DEF Init
  <2>2. readPhase = [r \in Requests |-> "idle"]
    BY <2>1, PhaseValues DEF readPhase
  <2>3. readSeen = [r \in Requests |-> {}]
    BY <2>1 DEF readSeen
  <2>4. readRows = [r \in Requests |-> <<>>]
    BY <2>1 DEF readRows
  <2> QED  BY <2>2, <2>3, <2>4
<1> QED  BY <1>1, <1>2, SameData DEF Init, Reads!ReadsInit

(* The mapping reads a request's variables only: a step that leaves them   *)
(* alone leaves the mapped ones alone.                                     *)
LEMMA Unmoved ==
    ASSUME UNCHANGED <<pc, rest, items>>
    PROVE  UNCHANGED <<readPhase, readSeen, readRows>>
BY DEF readPhase, readSeen, readRows

(* The phases of one request.                                              *)
LEMMA PhaseMaps ==
    ASSUME TypeOK, NEW r \in Requests
    PROVE  /\ pc[r] = "idle" => readPhase[r] = "idle"
           /\ pc[r] \in {"waiting", "querying"} => readPhase[r] = "asked"
           /\ pc[r] = "rows" => readPhase[r] = "looked"
BY DEF readPhase, PhaseOf

(* A step of the program counter moves the phase of its request.           *)
LEMMA PhaseMoves ==
    ASSUME NEW r \in Requests, NEW p,
           \A s \in Requests : pc'[s] = IF s = r THEN p ELSE pc[s]
    PROVE  readPhase' = [readPhase EXCEPT ![r] = PhaseOf[p]]
BY DEF readPhase

(* What an answer does to the mapped variables.                            *)
LEMMA AnswerMaps ==
    ASSUME TypeOK, NEW r \in Requests, NEW code, NEW body, Answer(r, code, body)
    PROVE  /\ readPhase' = [readPhase EXCEPT ![r] = "answered"]
           /\ readSeen' = [readSeen EXCEPT ![r] = {}]
           /\ readRows' = [readRows EXCEPT ![r] = Body(body)]
           /\ readRows'[r] = Body(body)
           /\ readRows' = [readRows EXCEPT ![r] = readRows'[r]]
           /\ status' = [status EXCEPT ![r] = code]
<1>1. \A s \in Requests :
        /\ pc'[s] = IF s = r THEN "done" ELSE pc[s]
        /\ items'[s] = IF s = r THEN body ELSE items[s]
        /\ rest'[s] = IF s = r THEN {} ELSE rest[s]
  BY DEF Answer, TypeOK
<1>2. readPhase' = [readPhase EXCEPT ![r] = "answered"]
  BY <1>1, PhaseMoves, PhaseValues
<1>3. readSeen' = [readSeen EXCEPT ![r] = {}]
  BY <1>1 DEF readSeen
<1>4. readRows' = [readRows EXCEPT ![r] = Body(body)] /\ readRows'[r] = Body(body)
  BY <1>1 DEF readRows
<1> QED  BY <1>2, <1>3, <1>4 DEF Answer

(* An answer of the service is an answer of the promise.                   *)
LEMMA AnswerReplies ==
    ASSUME TypeOK, NEW r \in Requests, NEW code, NEW body, Answer(r, code, body),
           UNCHANGED <<db, clock, now>>
    PROVE  Reads!Reply(r, code) /\ readRows'[r] = Body(body)
BY AnswerMaps DEF Reads!Reply

(* An answer without rows has a body; one with rows, if all have a JSON    *)
(* form.                                                                   *)
LEMMA EmptyBody == Body(<<>>) = <<>>
BY DEF Body, ToSet

LEMMA DetailBody ==
    ASSUME NEW row
    PROVE  Body(<<row>>) = IF Renderable(row.published_at) THEN <<row>> ELSE NULL
<1>1. ToSet(<<row>>) = {row}
  BY DEF ToSet
<1> QED  BY <1>1 DEF Body

(* Up to the pool: an answer at once, or a question.                       *)
LEMMA ServeReads ==
    ASSUME TypeOK, NEW r \in Requests, Serve(r)
    PROVE  Reads!ReplyAtOnce(r) \/ Reads!Ask(r)
<1>1. PICK q \in Queries :
        /\ Begin(r, q)
        /\ \/ q.op = "health" /\ Answer(r, 200, <<>>) /\ UNCHANGED now
           \/ q.op = "detail" /\ q.id = NULL /\ Answer(r, 404, <<>>) /\ UNCHANGED now
           \/ /\ q.op = "list" \/ (q.op = "detail" /\ q.id # NULL)
              /\ validateLang(q.lang) # "nil"
              /\ Fail(r, validateLang(q.lang)) /\ UNCHANGED now
           \/ /\ q.op = "list" \/ (q.op = "detail" /\ q.id # NULL)
              /\ validateLang(q.lang) = "nil"
              /\ Enqueue(r)
              /\ now' = IF q.op = "list" THEN [now EXCEPT ![r] = clock] ELSE now
  BY DEF Serve, ServeHealth, RejectId, RejectLang, StartList, StartDetail
<1>2. /\ pc[r] = "idle" /\ readPhase[r] = "idle"
      /\ query' = [query EXCEPT ![r] = q] /\ UNCHANGED <<db, clock>>
  BY <1>1, PhaseMaps DEF Begin, tables
<1>3. ASSUME NEW code, Answer(r, code, <<>>), UNCHANGED now,
             Reads!Verdict(q) = code, code # 0
      PROVE  Reads!ReplyAtOnce(r)
  BY <1>2, <1>3, AnswerReplies, EmptyBody DEF Reads!ReplyAtOnce
<1>4. CASE Enqueue(r) /\ validateLang(q.lang) = "nil" /\
           (q.op = "list" \/ (q.op = "detail" /\ q.id # NULL)) /\
           now' = IF q.op = "list" THEN [now EXCEPT ![r] = clock] ELSE now
  <2>1. Reads!Verdict(q) = 0
    BY <1>4, Verdicts
  <2>2. \A s \in Requests : pc'[s] = IF s = r THEN "waiting" ELSE pc[s]
    BY <1>4 DEF Enqueue, TypeOK
  <2>3. readPhase' = [readPhase EXCEPT ![r] = "asked"]
    BY <2>2, PhaseMoves, PhaseValues
  <2>4. UNCHANGED <<items, rest, status>>
    BY <1>4 DEF Enqueue
  <2>5. UNCHANGED <<readSeen, readRows>>
    BY <1>2, <2>2, <2>4 DEF readSeen, readRows
  <2> QED  BY <1>2, <1>4, <2>1, <2>3, <2>4, <2>5 DEF Reads!Ask
<1>5. CASE q.op = "health" /\ Answer(r, 200, <<>>) /\ UNCHANGED now
  BY <1>3, <1>5, Verdicts
<1>6. CASE q.op = "detail" /\ q.id = NULL /\ Answer(r, 404, <<>>) /\ UNCHANGED now
  BY <1>3, <1>6, Verdicts
<1>7. CASE (q.op = "list" \/ (q.op = "detail" /\ q.id # NULL)) /\
           validateLang(q.lang) # "nil" /\
           Fail(r, validateLang(q.lang)) /\ UNCHANGED now
  <2>1. Answer(r, 400, <<>>)
    BY <1>7, LangIs400 DEF Fail
  <2> QED  BY <1>3, <1>7, <2>1, Verdicts
<1> QED  BY <1>1, <1>4, <1>5, <1>6, <1>7

(* A failure on the way is the promise's failure.                          *)
LEMMA FailureReads ==
    ASSUME TypeOK, NEW r \in Requests, Open(r), RepositoryFails(r, "other"),
           UNCHANGED <<db, clock, query, now>>
    PROVE  Reads!ReplyFailure(r)
<1>1. Answer(r, 500, <<>>)
  BY OtherIs500 DEF RepositoryFails, Fail
<1>2. readPhase[r] \in {"asked", "looked"}
  BY PhaseMaps DEF Open
<1> QED  BY <1>1, <1>2, AnswerReplies, EmptyBody DEF Reads!ReplyFailure

(* Between the question and the answer: the look, and steps the promise    *)
(* does not see.                                                           *)
LEMMA ProgressReads ==
    ASSUME AnswersInv, MapInv, NEW r \in Requests, Progress(r)
    PROVE  Reads!ReadsNext \/ UNCHANGED Reads!rvars
<1>0. TypeOK /\ TablesInv /\ RequestInv(r)
  BY DEF AnswersInv
<1>1. CASE Acquire(r)
  <2>1. /\ pc[r] = "waiting" /\ pc' = [pc EXCEPT ![r] = "querying"]
        /\ UNCHANGED <<db, clock, query, now, rest, items, status>>
    BY <1>1 DEF Acquire, tables
  <2>2. \A s \in Requests : pc'[s] = IF s = r THEN "querying" ELSE pc[s]
    BY <1>0, <2>1 DEF TypeOK
  <2>3. PhaseOf[pc[r]] = PhaseOf["querying"]
    BY <2>1, PhaseValues
  <2>4. readPhase' = readPhase
    BY <2>2, <2>3 DEF readPhase
  <2>5. UNCHANGED <<readSeen, readRows>>
    BY <2>1, <2>2 DEF readSeen, readRows
  <2> QED  BY <2>1, <2>4, <2>5 DEF Reads!rvars
<1>2. CASE ExecuteList(r)
  <2>1. /\ pc[r] = "querying" /\ query[r].op = "list"
        /\ pc' = [pc EXCEPT ![r] = "rows"]
        /\ rest' = [rest EXCEPT ![r] = Listing(db, query[r].lang, now[r])]
        /\ UNCHANGED <<db, clock, query, now, items, status>>
    BY <1>2 DEF ExecuteList, tables
  <2>2. ToSet(items[r]) = {}
    BY <1>0, <2>1 DEF RequestInv, ToSet
  <2> DEFINE L == Listing(db, query[r].lang, now[r])
  <2>3. /\ \A s \in Requests : pc'[s] = IF s = r THEN "rows" ELSE pc[s]
        /\ \A s \in Requests : rest'[s] = IF s = r THEN L ELSE rest[s]
    BY <1>0, <2>1 DEF TypeOK
  <2>4. readPhase[r] = "asked" /\ readPhase' = [readPhase EXCEPT ![r] = "looked"]
    BY <1>0, <2>1, <2>3, PhaseMaps, PhaseMoves, PhaseValues
  <2>5. readSeen' = [readSeen EXCEPT ![r] = L]
    <3> HIDE DEF L
    <3>1. items' = items
      BY <2>1
    <3>2. L \cup ToSet(items[r]) = L
      BY <2>2
    <3>3. readSeen' = [s \in Requests |-> IF s = r THEN L ELSE readSeen[s]]
      BY <2>3, <3>1, <3>2 DEF readSeen
    <3> QED  BY <3>3 DEF readSeen
  <2>6. readRows' = readRows
    BY <2>1, <2>3 DEF readRows
  <2>7. now[r] \in now[r]..clock
    BY <1>0 DEF MapInv, TypeOK, Times
  <2>8. Reads!Look(r)
    BY <2>1, <2>4, <2>5, <2>6, <2>7, SameQueries DEF Reads!Look
  <2> QED  BY <2>8 DEF Reads!ReadsNext
<1>3. CASE ScanRow(r)
  <2>1. PICK row \in rest[r] :
          /\ items' = [items EXCEPT ![r] = Append(@, row)]
          /\ rest' = [rest EXCEPT ![r] = @ \ {row}]
    BY <1>3 DEF ScanRow
  <2>2. pc[r] = "rows" /\ UNCHANGED <<db, clock, pc, query, now, status>>
    BY <1>3 DEF ScanRow, tables
  <2>3. items[r] \in Seq(Row) /\ items'[r] = Append(items[r], row)
        /\ rest'[r] = rest[r] \ {row}
    BY <1>0, <2>1 DEF TypeOK
  <2>4. ToSet(items'[r]) = ToSet(items[r]) \cup {row}
    <3>1. /\ DOMAIN items'[r] = DOMAIN items[r] \cup {Len(items[r]) + 1}
          /\ items'[r][Len(items[r]) + 1] = row
          /\ \A i \in DOMAIN items[r] : items'[r][i] = items[r][i]
      BY <2>3
    <3> QED  BY <3>1 DEF ToSet
  <2>5. \A s \in Requests : s # r => items'[s] = items[s] /\ rest'[s] = rest[s]
    BY <1>0, <2>1 DEF TypeOK
  <2>6. rest'[r] \cup ToSet(items'[r]) = rest[r] \cup ToSet(items[r])
    BY <2>3, <2>4
  <2>7. readSeen' = readSeen
    BY <2>2, <2>5, <2>6 DEF readSeen
  <2>8. readRows' = readRows /\ readPhase' = readPhase
    BY <2>2, <2>5 DEF readRows, readPhase
  <2> QED  BY <2>2, <2>7, <2>8 DEF Reads!rvars
<1>4. CASE ScanFails(r)
  <2>1. Reads!ReplyFailure(r)
    BY <1>0, <1>4, FailureReads DEF ScanFails, Open, tables
  <2> QED  BY <2>1 DEF Reads!ReadsNext
<1>5. CASE EndOfRows(r)
  <2>1. /\ pc[r] = "rows" /\ rest[r] = {} /\ Answer(r, 200, items[r])
        /\ UNCHANGED <<db, clock, query, now>>
    BY <1>5 DEF EndOfRows, tables
  <2>2. Reads!Reply(r, 200) /\ readRows'[r] = Body(items[r])
    BY <1>0, <2>1, AnswerReplies
  <2>3. readSeen[r] = ToSet(items[r])
    BY <2>1 DEF readSeen
  <2>4. \A row \in readSeen[r] : Scannable(row.published_at)
    BY <2>1, <2>3 DEF MapInv, ToSet
  <2>5. \A i, j \in DOMAIN items[r] : i < j => Before(items[r][i], items[r][j])
    BY <1>0, <2>1 DEF RequestInv, Reading, Ordered
  <2>6. readPhase[r] = "looked"
    BY <1>0, <2>1, PhaseMaps
  <2>7. \/ /\ \A row \in readSeen[r] : Renderable(row.published_at)
           /\ readRows'[r] = items[r]
        \/ /\ \E row \in readSeen[r] : ~Renderable(row.published_at)
           /\ readRows'[r] = NULL
    BY <2>2, <2>3 DEF Body
  <2>8. Reads!ReplyList(r)
    BY <2>1, <2>2, <2>3, <2>4, <2>5, <2>6, <2>7, SameQueries DEF Reads!ReplyList
  <2> QED  BY <2>8 DEF Reads!ReadsNext
<1>6. CASE ExecuteDetail(r)
  <2>1. /\ pc[r] = "querying" /\ query[r].op = "detail" /\ readPhase[r] = "asked"
        /\ UNCHANGED <<db, clock, query, now>>
    BY <1>0, <1>6, PhaseMaps DEF ExecuteDetail, tables
  <2>2. Reads!DetailRows(db, query[r].id, query[r].lang) = DetailFor(r)
    BY SameQueries DEF DetailFor
  <2>3. CASE DetailFound(r)
    <3>1. PICK row \in DetailFor(r) :
            Scannable(row.published_at) /\ Answer(r, 200, <<row>>)
      BY <2>3 DEF DetailFound
    <3>2. /\ Reads!Reply(r, 200)
          /\ readRows'[r] = IF Renderable(row.published_at) THEN <<row>> ELSE NULL
      BY <1>0, <2>1, <3>1, AnswerReplies, DetailBody
    <3>3. Reads!ReplyDetail(r)
      BY <2>1, <2>2, <3>1, <3>2, SameQueries DEF Reads!ReplyDetail
    <3> QED  BY <3>3 DEF Reads!ReadsNext
  <2>4. CASE DetailMissing(r)
    <3>1. DetailFor(r) = {} /\ Answer(r, 404, <<>>)
      BY <2>1, <2>4, NotFoundIs404 DEF DetailMissing, RepositoryFails, Fail
    <3>2. Reads!Reply(r, 404) /\ readRows'[r] = <<>>
      BY <1>0, <2>1, <3>1, AnswerReplies, EmptyBody
    <3>3. Reads!ReplyDetail(r)
      BY <2>1, <2>2, <3>1, <3>2 DEF Reads!ReplyDetail
    <3> QED  BY <3>3 DEF Reads!ReadsNext
  <2>5. CASE DetailUnscannable(r)
    <3>1. Reads!ReplyFailure(r)
      BY <1>0, <2>1, <2>5, FailureReads DEF DetailUnscannable, Open
    <3> QED  BY <3>1 DEF Reads!ReadsNext
  <2> QED  BY <1>6, <2>3, <2>4, <2>5 DEF ExecuteDetail
<1> QED  BY <1>1, <1>2, <1>3, <1>4, <1>5, <1>6 DEF Progress

LEMMA FaultReads ==
    ASSUME TypeOK, NEW r \in Requests, Fault(r)
    PROVE  Reads!ReadsNext \/ UNCHANGED Reads!rvars
<1>1. CASE \/ DialFails(r) \/ QueryFails(r)
           \/ AcquireCancelled(r) \/ QueryCancelled(r)
  <2>1. Reads!ReplyFailure(r)
    BY <1>1, FailureReads DEF DialFails, AcquireCancelled, QueryFails, QueryCancelled,
         Open, tables
  <2> QED  BY <2>1 DEF Reads!ReadsNext
<1>2. CASE ClientGone(r)
  BY <1>2, Unmoved DEF ClientGone, Reads!rvars, tables, serving
<1> QED  BY <1>1, <1>2 DEF Fault

(* Edits change the tables to well-formed ones, and nothing else.          *)
LEMMA EnvironmentReads ==
    ASSUME AnswersInv, [Next]_vars, Editor \/ Tick
    PROVE  Reads!ReadsNext
<1>1. AnswersInv'
  BY NextTypeOK, NextTables, NextRequests DEF AnswersInv
<1>2. db' \in Database /\ WellFormed(db')
  BY <1>1 DEF AnswersInv, TypeOK, TablesInv
<1>3. UNCHANGED <<pc, rest, items, query, now, status>>
  BY DEF Editor, Insert, SetPeriod, Translate, DropTranslation, Delete, Edit, Tick,
         tables, serving
<1>4. UNCHANGED <<readPhase, readSeen, readRows>>
  BY <1>3, Unmoved
<1>5. CASE Editor
  <2>1. clock' = clock
    BY <1>5 DEF Editor, Insert, SetPeriod, Translate, DropTranslation, Delete, Edit
  <2>2. Reads!Change
    BY <1>2, <1>3, <1>4, <2>1, SameData DEF Reads!Change
  <2> QED  BY <2>2 DEF Reads!ReadsNext
<1>6. CASE Tick
  <2>1. clock' = clock + 1 /\ db' = db
    BY <1>6 DEF Tick, tables
  <2>2. Reads!Pass
    BY <1>3, <1>4, <2>1 DEF Reads!Pass
  <2> QED  BY <2>2 DEF Reads!ReadsNext
<1> QED  BY <1>5, <1>6

(* Every step of the service is a step of the promise or none.             *)
LEMMA NextReads ==
    AnswersInv /\ MapInv /\ [Next]_vars => [Reads!ReadsNext]_(Reads!rvars)
<1> SUFFICES ASSUME AnswersInv, MapInv, [Next]_vars
             PROVE  Reads!ReadsNext \/ UNCHANGED Reads!rvars
  OBVIOUS
<1>0. TypeOK
  BY DEF AnswersInv
<1>1. ASSUME NEW r \in Requests, Serve(r) PROVE Reads!ReadsNext
  <2>1. Reads!ReplyAtOnce(r) \/ Reads!Ask(r)
    BY <1>0, <1>1, ServeReads
  <2> QED  BY <2>1 DEF Reads!ReadsNext
<1>2. ASSUME NEW r \in Requests, Progress(r) \/ Fault(r)
      PROVE  Reads!ReadsNext \/ UNCHANGED Reads!rvars
  BY <1>0, <1>2, ProgressReads, FaultReads
<1>3. CASE Editor \/ Tick
  BY <1>3, EnvironmentReads
<1>4. CASE UNCHANGED vars
  BY <1>4, Unmoved DEF vars, tables, serving, Reads!rvars
<1> QED  BY <1>1, <1>2, <1>3, <1>4 DEF Next

(* Whatever the requests, connections, tables and bounds: every answer of  *)
(* the service is one look at the tables between request and answer, or a  *)
(* failure.                                                                *)
THEOREM ServiceImplementsReads == Spec => ImplementsReads
<1>1. Init => MapInv
  BY InitMap
<1>2. AnswersInv /\ MapInv /\ [Next]_vars => MapInv'
  BY NextMap
<1> QED
  BY <1>1, <1>2, InitReads, NextReads, AnswersInductive, PTL
     DEF Spec, ImplementsReads, Reads!ReadsSpec

-----------------------------------------------------------------------------
(***************************************************************************)
(* IV. SupportClient: what the calls return.                               *)
(***************************************************************************)

(* Under the client the service does what it does alone.                   *)
LEMMA RequestServes ==
    ASSUME NEW c, NEW r, Request(c, r)
    PROVE  Serve(r) /\ attempts' = [attempts EXCEPT ![c] = Append(@, r)]
                    /\ UNCHANGED <<outcome, broken>>
BY DEF Request, Serve

LEMMA ClientStep ==
    ASSUME [ClientNext]_clientVars
    PROVE  [Next]_vars
<1>1. ASSUME NEW c \in Calls, Send(c) \/ Retry(c) PROVE Next
  BY <1>1, RequestServes DEF Send, Retry, Next
<1>2. ASSUME NEW c \in Calls,
             SendFails(c) \/ Receive(c) \/ Break(c) \/ GiveUp(c) \/ Cancel(c)
      PROVE  UNCHANGED vars
  BY <1>2 DEF SendFails, Receive, Break, GiveUp, Cancel
<1>3. ASSUME NEW r \in Requests, HandlerStep(r) \/ Disconnected(r) PROVE Next
  BY <1>3 DEF HandlerStep, Disconnected, Fault, Next
<1>4. CASE Environment
  BY <1>4 DEF Environment, Next
<1>5. CASE UNCHANGED clientVars
  BY <1>5 DEF clientVars
<1> QED  BY <1>1, <1>2, <1>3, <1>4, <1>5 DEF ClientNext

(* The client, its retries included, asks nothing of the service that the  *)
(* service was not written for: every behaviour is one of the service.     *)
THEOREM ServiceUnderClient == ClientSpec => Spec
<1>1. ClientInit => Init
  BY DEF ClientInit
<1>2. [ClientNext]_clientVars => [Next]_vars
  BY ClientStep
<1> QED  BY <1>1, <1>2, PTL DEF ClientSpec, Spec

-----------------------------------------------------------------------------
(* A 400 is about the language.                                            *)
BadRequestExact ==
    \A r \in Requests :
        /\ pc[r] # "done" <=> status[r] = 0
        /\ status[r] = 400 => query[r].lang \notin SupportedLangs

LEMMA InitBadRequest == Init => BadRequestExact
BY DEF Init, BadRequestExact


LEMMA NextBadRequest == TypeOK /\ BadRequestExact /\ [Next]_vars => BadRequestExact'
<1> SUFFICES ASSUME TypeOK, BadRequestExact, [Next]_vars PROVE BadRequestExact'
  OBVIOUS
<1> USE DEF serving
<1>1. ASSUME NEW r \in Requests,
             pc' = [pc EXCEPT ![r] = "done"],
             \A s \in Requests : s # r => status'[s] = status[s] /\ query'[s] = query[s],
             status'[r] # 0,
             status'[r] = 400 => query'[r].lang \notin SupportedLangs
      PROVE  BadRequestExact'
  <2>1. \A s \in Requests : pc'[s] = IF s = r THEN "done" ELSE pc[s]
    BY <1>1 DEF TypeOK
  <2> QED  BY <1>1, <2>1 DEF BadRequestExact
<1>2. ASSUME NEW r \in Requests, NEW code, NEW body, Answer(r, code, body),
             code \notin {0, 400}, query' = query
      PROVE  BadRequestExact'
  <2>1. pc' = [pc EXCEPT ![r] = "done"] /\ status'[r] \notin {0, 400}
    BY <1>2 DEF Answer, TypeOK
  <2>2. \A s \in Requests : s # r => status'[s] = status[s] /\ query'[s] = query[s]
    BY <1>2 DEF Answer, TypeOK
  <2> QED  BY <1>1, <2>1, <2>2
<1>3. ASSUME NEW r \in Requests, NEW err, RepositoryFails(r, err), query' = query
      PROVE  BadRequestExact'
  <2>1. errorStatus(usecaseError(query[r].op, err)) \notin {0, 400}
    BY DEF errorStatus, usecaseError
  <2> QED  BY <1>2, <1>3, <2>1 DEF RepositoryFails, Fail
<1>4. ASSUME NEW r \in Requests, Serve(r) PROVE BadRequestExact'
  <2>1. PICK q \in Queries : Begin(r, q) /\
          \/ Answer(r, 200, <<>>)
          \/ Answer(r, 404, <<>>)
          \/ validateLang(q.lang) # "nil" /\ Fail(r, validateLang(q.lang))
          \/ Enqueue(r)
    BY <1>4 DEF Serve, ServeHealth, RejectId, RejectLang, StartList, StartDetail
  <2>2. /\ pc[r] = "idle" /\ query'[r] = q
        /\ \A s \in Requests : s # r => query'[s] = query[s]
    BY <2>1 DEF Begin, TypeOK
  <2>3. ASSUME NEW code, Answer(r, code, <<>>), code # 0,
               code = 400 => q.lang \notin SupportedLangs
        PROVE  BadRequestExact'
    <3>1. pc' = [pc EXCEPT ![r] = "done"] /\ status'[r] = code
      BY <2>3 DEF Answer, TypeOK
    <3>2. \A s \in Requests : s # r => status'[s] = status[s] /\ query'[s] = query[s]
      BY <2>2, <2>3 DEF Answer, TypeOK
    <3>3. status'[r] = 400 => query'[r].lang \notin SupportedLangs
      BY <2>2, <2>3, <3>1
    <3> QED  BY <1>1, <2>3, <3>1, <3>2, <3>3
  <2>4. validateLang(q.lang) # "nil" => q.lang \notin SupportedLangs
    <3>1. "" \notin SupportedLangs
      BY DEF SupportedLangs
    <3> QED  BY <3>1 DEF validateLang
  <2>5. CASE Enqueue(r)
    <3>1. \A s \in Requests : pc'[s] = IF s = r THEN "waiting" ELSE pc[s]
      BY <2>5 DEF Enqueue, TypeOK
    <3>2. status' = status /\ status[r] = 0
      BY <2>2, <2>5 DEF Enqueue, BadRequestExact
    <3> QED  BY <2>2, <3>1, <3>2 DEF BadRequestExact
  <2>6. errorStatus(validateLang(q.lang)) # 0
    BY DEF errorStatus
  <2> QED  BY <2>1, <2>3, <2>4, <2>5, <2>6 DEF Fail
<1>5. ASSUME NEW r \in Requests, Progress(r) \/ Fault(r) PROVE BadRequestExact'
  <2>1. CASE Acquire(r) \/ ExecuteList(r) \/ ScanRow(r)
    <3>1. /\ status' = status /\ query' = query
          /\ \A s \in Requests : pc'[s] = "done" => pc[s] = "done"
          /\ \A s \in Requests : pc[s] = "done" => pc'[s] = "done"
      BY <2>1 DEF Acquire, ExecuteList, ScanRow, TypeOK
    <3> QED  BY <3>1 DEF BadRequestExact
  <2>2. CASE EndOfRows(r)
    BY <1>2, <2>2 DEF EndOfRows
  <2>3. CASE ScanFails(r)
    BY <1>3, <2>3 DEF ScanFails
  <2>4. CASE ExecuteDetail(r)
    <3>1. query' = query
      BY <2>4 DEF ExecuteDetail
    <3>2. CASE DetailFound(r)
      BY <1>2, <3>1, <3>2 DEF DetailFound
    <3>3. CASE DetailMissing(r) \/ DetailUnscannable(r)
      <4>1. RepositoryFails(r, "port.ErrNotFound") \/ RepositoryFails(r, "other")
        BY <3>3 DEF DetailMissing, DetailUnscannable
      <4> QED  BY <1>3, <3>1, <4>1
    <3> QED  BY <2>4, <3>2, <3>3 DEF ExecuteDetail
  <2>5. CASE \/ DialFails(r) \/ QueryFails(r)
             \/ AcquireCancelled(r) \/ QueryCancelled(r)
    BY <1>3, <2>5 DEF DialFails, AcquireCancelled, QueryFails, QueryCancelled
  <2>6. CASE ClientGone(r)
    BY <2>6 DEF ClientGone, BadRequestExact
  <2> QED  BY <1>5, <2>1, <2>2, <2>3, <2>4, <2>5, <2>6 DEF Progress, Fault
<1>6. CASE Editor \/ Tick \/ UNCHANGED vars
  BY <1>6 DEF Editor, Insert, SetPeriod, Translate, DropTranslation, Delete, Edit, Tick,
              vars, BadRequestExact
<1> QED  BY <1>4, <1>5, <1>6 DEF Next

-----------------------------------------------------------------------------
(* A request that is done stays as it is; its client cannot leave any more.*)
LEMMA DoneStays ==
    ASSUME TypeOK, [Next]_vars, NEW r \in Requests, pc[r] = "done"
    PROVE  /\ pc'[r] = "done" /\ status'[r] = status[r] /\ items'[r] = items[r]
           /\ r \in gone' => r \in gone
<1> USE DEF serving
<1>1. ASSUME NEW s \in Requests, Serve(s) \/ Progress(s) \/ Fault(s)
      PROVE  /\ s = r => ~(Serve(s) \/ Progress(s) \/ Fault(s))
             /\ s # r => /\ pc'[r] = pc[r] /\ status'[r] = status[r]
                        /\ items'[r] = items[r]
             /\ gone' \subseteq gone \cup (IF s = r THEN {} ELSE {s})
  <2>1. s # r
    BY <1>1 DEF Serve, Progress, Fault, ServeHealth, RejectId, RejectLang, StartList,
         StartDetail, Begin, Acquire, ExecuteList, ScanRow, ScanFails, EndOfRows,
         ExecuteDetail, DialFails, AcquireCancelled, QueryFails, QueryCancelled,
         ClientGone, Open
  <2>2. pc'[r] = pc[r] /\ status'[r] = status[r] /\ items'[r] = items[r]
    BY <1>1, <2>1 DEF Serve, Progress, Fault, ServeHealth, RejectId, RejectLang,
         StartList, StartDetail, Begin, Enqueue, Acquire, ExecuteList, ScanRow,
         ScanFails, EndOfRows, ExecuteDetail, DetailFound, DetailMissing,
         DetailUnscannable, DialFails, AcquireCancelled, QueryFails, QueryCancelled,
         ClientGone, RepositoryFails, Fail, Answer, TypeOK
  <2>3. gone' \subseteq gone \cup {s}
    BY <1>1 DEF Serve, Progress, Fault, ServeHealth, RejectId, RejectLang, StartList,
         StartDetail, Begin, Acquire, ExecuteList, ScanRow, ScanFails, EndOfRows,
         ExecuteDetail, DialFails, AcquireCancelled, QueryFails, QueryCancelled,
         ClientGone
  <2> QED  BY <2>1, <2>2, <2>3
<1>2. CASE Editor \/ Tick \/ UNCHANGED vars
  BY <1>2 DEF Editor, Insert, SetPeriod, Translate, DropTranslation, Delete, Edit, Tick,
              vars
<1> QED  BY <1>1, <1>2 DEF Next

-----------------------------------------------------------------------------
(* What a call has returned is the answer of its last request, whose       *)
(* client was there to the end, or no answer at all.                       *)
CallInv(c) ==
    outcome[c] # NULL =>
        \/ outcome[c] = Failed /\ (attempts[c] = <<>> \/ Current(c) \in broken)
        \/ /\ attempts[c] # <<>>
           /\ pc[Current(c)] = "done" /\ Current(c) \notin gone
           /\ outcome[c] = Result(status[Current(c)], Body(items[Current(c)]))

ClientInv ==
    /\ ClientTypeOK
    /\ gone \subseteq broken
    /\ \A c \in Calls : CallInv(c)

LEMMA CurrentIsRequest ==
    ASSUME ClientTypeOK, NEW c \in Calls, attempts[c] # <<>>
    PROVE  Current(c) \in Requests /\ Len(attempts[c]) \in DOMAIN attempts[c]
BY DEF ClientTypeOK, Current

LEMMA FailedTyped == Failed \in Outcome
<1>1. <<>> \in Seq(Row)
  OBVIOUS
<1> QED  BY <1>1 DEF Failed, Outcome, Errors

(* c.JSON writes the rows it is given, or nothing. *)
LEMMA BodyShown == \A shown : Body(shown) \in {shown, NULL}
BY DEF Body

LEMMA ResultTyped ==
    ASSUME NEW code \in {0, 200, 400, 404, 500}, NEW body \in Seq(Row) \cup {NULL}
    PROVE  Result(code, body) \in Outcome
<1>1. <<>> \in Seq(Row)
  OBVIOUS
<1>2. newStatusError(code) \in Errors
  BY DEF newStatusError, Errors
<1> QED  BY <1>1, <1>2, FailedTyped DEF Result, Outcome, Errors

LEMMA InitClient == ClientInit => ClientInv
<1>1. <<>> \in Seq(Requests)
  OBVIOUS
<1> QED  BY <1>1 DEF ClientInit, Init, ClientInv, ClientTypeOK, CallInv

LEMMA NextClient == TypeOK /\ ClientInv /\ [ClientNext]_clientVars => ClientInv'
<1> SUFFICES ASSUME TypeOK, ClientInv, [ClientNext]_clientVars PROVE ClientInv'
  OBVIOUS
<1> USE DEF client
<1>0. ClientTypeOK /\ gone \subseteq broken /\ [Next]_vars
  BY ClientStep DEF ClientInv
\* An outcome that is there stays true.
<1>1. ASSUME NEW c \in Calls, outcome'[c] = outcome[c], outcome[c] # NULL,
             attempts'[c] = attempts[c], broken \subseteq broken'
      PROVE  CallInv(c)'
  <2>1. CASE outcome[c] = Failed /\ (attempts[c] = <<>> \/ Current(c) \in broken)
    BY <1>1, <2>1 DEF CallInv, Failed, Current
  <2>2. CASE ~(outcome[c] = Failed /\ (attempts[c] = <<>> \/ Current(c) \in broken))
    <3>1. /\ attempts[c] # <<>> /\ pc[Current(c)] = "done" /\ Current(c) \notin gone
          /\ outcome[c] = Result(status[Current(c)], Body(items[Current(c)]))
      BY <1>1, <2>2 DEF ClientInv, CallInv
    <3>2. Current(c) \in Requests /\ Current(c)' = Current(c)
      BY <1>0, <1>1, <3>1, CurrentIsRequest DEF Current
    <3>3. /\ pc'[Current(c)] = "done" /\ Current(c) \notin gone'
          /\ status'[Current(c)] = status[Current(c)]
          /\ items'[Current(c)] = items[Current(c)]
      BY <1>0, <3>1, <3>2, DoneStays
    <3> QED  BY <1>1, <3>1, <3>2, <3>3 DEF CallInv, Result
  <2> QED  BY <2>1, <2>2
<1>2. ASSUME NEW c \in Calls, outcome'[c] = NULL PROVE CallInv(c)'
  BY <1>2 DEF CallInv
<1>3. ASSUME UNCHANGED client PROVE \A c \in Calls : CallInv(c)'
  BY <1>1, <1>2, <1>3
<1>4. ASSUME NEW c \in Calls, Send(c) \/ Retry(c) PROVE ClientInv'
  <2>1. PICK r \in Requests : Request(c, r)
    BY <1>4 DEF Send, Retry
  <2>2. /\ attempts' = [attempts EXCEPT ![c] = Append(@, r)]
        /\ UNCHANGED <<outcome, broken>> /\ Serve(r)
    BY <2>1, RequestServes
  <2>3. gone' = gone
    BY <2>2 DEF Serve, ServeHealth, RejectId, RejectLang, StartList, StartDetail, Begin
  <2>4. outcome[c] = NULL
    BY <1>4 DEF Send, Retry, InFlight
  <2>5. ASSUME NEW k \in Calls PROVE CallInv(k)'
    <3>1. k # c => attempts'[k] = attempts[k]
      BY <1>0, <2>2 DEF ClientTypeOK
    <3> QED  BY <1>1, <1>2, <2>2, <2>4, <3>1
  <2>6. attempts' \in [Calls -> Seq(Requests)]
    BY <1>0, <2>2 DEF ClientTypeOK
  <2> QED  BY <1>0, <2>2, <2>3, <2>5, <2>6 DEF ClientInv, ClientTypeOK
\* A call returns: with no answer, or with that of its request.
<1>5. ASSUME NEW c \in Calls, NEW result \in Outcome, Return(c, result),
             UNCHANGED <<attempts, vars>>, broken \subseteq broken',
             broken' \subseteq Requests, CallInv(c)'
      PROVE  ClientInv'
  <2>1. \A k \in Calls : outcome'[k] = IF k = c THEN result ELSE outcome[k]
    BY <1>0, <1>5 DEF Return, ClientTypeOK
  <2>2. ASSUME NEW k \in Calls, k # c PROVE CallInv(k)'
    <3>1. outcome'[k] = outcome[k] /\ attempts'[k] = attempts[k]
      BY <1>5, <2>1, <2>2
    <3> QED  BY <1>1, <1>2, <1>5, <3>1
  <2>3. outcome' \in [Calls -> Outcome \cup {NULL}]
    BY <1>0, <1>5 DEF Return, ClientTypeOK
  <2>4. gone' = gone
    BY <1>5 DEF vars
  <2>5. \A k \in Calls : CallInv(k)'
    BY <1>5, <2>2
  <2> QED  BY <1>0, <1>5, <2>3, <2>4, <2>5 DEF ClientInv, ClientTypeOK
<1>6. ASSUME NEW c \in Calls, SendFails(c) \/ GiveUp(c) \/ Cancel(c) PROVE ClientInv'
  <2>1. Return(c, Failed) /\ UNCHANGED <<attempts, vars>>
    BY <1>6 DEF SendFails, GiveUp, Cancel
  <2>2. broken \subseteq broken' /\ broken' \subseteq Requests
    <3>1. CASE Cancel(c)
      BY <1>0, <3>1, CurrentIsRequest DEF Cancel, InFlight, ClientTypeOK
    <3>2. CASE SendFails(c) \/ GiveUp(c)
      BY <1>0, <3>2 DEF SendFails, GiveUp, ClientTypeOK
    <3> QED  BY <1>6, <3>1, <3>2
  <2>3. outcome'[c] = Failed
    BY <1>0, <2>1 DEF Return, ClientTypeOK
  <2>4. attempts'[c] = <<>> \/ Current(c)' \in broken'
    BY <1>6, <2>1 DEF SendFails, GiveUp, Cancel, Current
  <2>5. CallInv(c)'
    BY <2>3, <2>4 DEF CallInv, Failed
  <2> QED  BY <1>5, <2>1, <2>2, <2>5, FailedTyped
<1>7. ASSUME NEW c \in Calls, Receive(c) PROVE ClientInv'
  <2>1. /\ attempts[c] # <<>> /\ Current(c) \notin broken /\ pc[Current(c)] = "done"
        /\ Return(c, Result(status[Current(c)], Body(items[Current(c)])))
        /\ UNCHANGED <<attempts, broken, vars>>
    BY <1>7 DEF Receive, InFlight
  <2>2. Current(c) \in Requests /\ Current(c) \notin gone
    BY <1>0, <2>1, CurrentIsRequest
  <2>3. Result(status[Current(c)], Body(items[Current(c)])) \in Outcome
    <3>1. /\ status[Current(c)] \in {0, 200, 400, 404, 500}
          /\ items[Current(c)] \in Seq(Row)
      BY <2>2 DEF TypeOK
    <3> QED  BY <3>1, BodyShown, ResultTyped
  <2>4. outcome'[c] = Result(status[Current(c)], Body(items[Current(c)]))
    BY <1>0, <2>1 DEF Return, ClientTypeOK
  <2>5. UNCHANGED <<pc, status, items, gone>> /\ Current(c)' = Current(c)
    BY <2>1 DEF vars, serving, Current
  <2>6. CallInv(c)'
    BY <2>1, <2>2, <2>4, <2>5 DEF CallInv, Result
  <2>7. broken' \subseteq Requests
    BY <1>0, <2>1 DEF ClientTypeOK
  <2> QED  BY <1>5, <2>1, <2>3, <2>6, <2>7
<1>8. ASSUME NEW c \in Calls, Break(c) PROVE ClientInv'
  <2>1. /\ UNCHANGED <<attempts, outcome, vars>>
        /\ broken' = broken \cup {Current(c)} /\ Current(c) \in Requests
    BY <1>0, <1>8, CurrentIsRequest DEF Break, InFlight
  <2>2. \A k \in Calls : CallInv(k)'
    BY <1>1, <1>2, <2>1
  <2>3. gone' = gone
    BY <2>1 DEF vars
  <2> QED  BY <1>0, <2>1, <2>2, <2>3 DEF ClientInv, ClientTypeOK
<1>9. ASSUME NEW r \in Requests, HandlerStep(r) PROVE ClientInv'
  <2>1. gone' = gone /\ UNCHANGED client
    BY <1>9 DEF HandlerStep, Progress, Acquire, ExecuteList, ScanRow, ScanFails,
         EndOfRows, ExecuteDetail, DialFails, AcquireCancelled, QueryFails,
         QueryCancelled
  <2> QED  BY <1>0, <1>3, <2>1 DEF ClientInv, ClientTypeOK
<1>10. ASSUME NEW r \in Requests, Disconnected(r) PROVE ClientInv'
  <2>1. gone' = gone \cup {r} /\ r \in broken /\ UNCHANGED client
    BY <1>10 DEF Disconnected, ClientGone
  <2> QED  BY <1>0, <1>3, <2>1 DEF ClientInv, ClientTypeOK
<1>11. CASE Environment \/ UNCHANGED clientVars
  <2>1. gone' = gone /\ UNCHANGED client
    BY <1>11 DEF Environment, Editor, Insert, SetPeriod, Translate, DropTranslation,
         Delete, Edit, Tick, clientVars, vars
  <2> QED  BY <1>0, <1>3, <2>1 DEF ClientInv, ClientTypeOK
<1> QED
  BY <1>4, <1>6, <1>7, <1>8, <1>9, <1>10, <1>11 DEF ClientNext

(* The client's ids are numbers: no detail is asked for without one.       *)
IdsInv ==
    \A r \in Requests :
        pc[r] # "idle" /\ query[r].op = "detail" => query[r].id # NULL

LEMMA NextIds == TypeOK /\ IdsInv /\ [ClientNext]_clientVars => IdsInv'
<1> SUFFICES ASSUME TypeOK, IdsInv, [ClientNext]_clientVars PROVE IdsInv'
  OBVIOUS
<1> USE DEF serving
<1>1. ASSUME NEW c \in Calls, Send(c) \/ Retry(c) PROVE IdsInv'
  <2>1. PICK r \in Requests : Request(c, r)
    BY <1>1 DEF Send, Retry
  <2>2. PICK q \in Queries : Begin(r, q) /\ (q.op = "detail" => q.id # NULL)
    BY <2>1 DEF Request, ServeHealth, RejectLang, StartList, StartDetail
  <2>3. /\ query'[r] = q
        /\ \A s \in Requests : s # r => query'[s] = query[s]
    BY <2>2 DEF Begin, TypeOK
  <2>4. \A s \in Requests : s # r => pc'[s] = pc[s]
    BY <2>1 DEF Request, ServeHealth, RejectLang, StartList, StartDetail, Fail, Answer,
         Enqueue, TypeOK
  <2> QED  BY <2>2, <2>3, <2>4 DEF IdsInv
<1>2. ASSUME query' = query, \A s \in Requests : pc[s] = "idle" => pc'[s] = "idle"
      PROVE  IdsInv'
  BY <1>2 DEF IdsInv
<1>3. ASSUME NEW c \in Calls,
             SendFails(c) \/ Receive(c) \/ Break(c) \/ GiveUp(c) \/ Cancel(c)
      PROVE  IdsInv'
  <2>1. query' = query /\ pc' = pc
    BY <1>3 DEF SendFails, Receive, Break, GiveUp, Cancel, vars
  <2> QED  BY <1>2, <2>1
<1>4. ASSUME NEW r \in Requests, HandlerStep(r) \/ Disconnected(r) PROVE IdsInv'
  <2>1. query' = query
    BY <1>4 DEF HandlerStep, Disconnected, Progress, Acquire, ExecuteList, ScanRow,
         ScanFails, EndOfRows, ExecuteDetail, DialFails, AcquireCancelled, QueryFails,
         QueryCancelled,
         ClientGone
  <2>2. \A s \in Requests : pc[s] = "idle" => pc'[s] = "idle"
    BY <1>4 DEF HandlerStep, Disconnected, Progress, Acquire, ExecuteList, ScanRow,
         ScanFails, EndOfRows, ExecuteDetail, DetailFound, DetailMissing,
         DetailUnscannable, DialFails, AcquireCancelled, QueryFails, QueryCancelled,
         ClientGone, RepositoryFails, Fail, Answer, TypeOK
  <2> QED  BY <1>2, <2>1, <2>2
<1>5. CASE Environment \/ UNCHANGED clientVars
  <2>1. query' = query /\ pc' = pc
    BY <1>5 DEF Environment, Editor, Insert, SetPeriod, Translate, DropTranslation,
         Delete, Edit, Tick, clientVars, vars
  <2> QED  BY <1>2, <2>1
<1> QED  BY <1>1, <1>3, <1>4, <1>5 DEF ClientNext

(* What the theorems about calls rest on.                                  *)
CallsInv == AnswersInv /\ BadRequestExact /\ ClientInv /\ IdsInv

LEMMA CallsInductive == ClientSpec => []CallsInv
<1>1. ClientInit => CallsInv
  BY InitTypeOK, InitTables, InitRequests, InitBadRequest, InitClient
     DEF ClientInit, CallsInv, AnswersInv, Init, IdsInv
<1>2. CallsInv /\ [ClientNext]_clientVars => CallsInv'
  BY ClientStep, NextTypeOK, NextTables, NextRequests, NextBadRequest, NextClient,
     NextIds
     DEF CallsInv, AnswersInv
<1> QED  BY <1>1, <1>2, PTL DEF ClientSpec

(* The client's variables keep their types: no call returns without an     *)
(* error and without a result.                                             *)
THEOREM ClientTypeCorrect == ClientSpec => []ClientTypeOK
<1>1. CallsInv => ClientTypeOK
  BY DEF CallsInv, ClientInv
<1> QED  BY <1>1, CallsInductive, PTL

(* A call that returned more than a failure of its own has the answer of   *)
(* its last request.                                                       *)
LEMMA Heard ==
    ASSUME CallsInv, NEW c \in Calls, NEW err \in Errors \ {"other"}, Returned(c, err)
    PROVE  /\ Current(c) \in Requests
           /\ Len(attempts[c]) \in DOMAIN attempts[c]
           /\ pc[Current(c)] = "done" /\ Current(c) \notin gone
           /\ outcome[c] = Result(status[Current(c)], Body(items[Current(c)]))
           /\ status[Current(c)] \in {0, 200, 400, 404, 500}
<1>1. outcome[c] # Failed
  BY DEF Returned, Failed
<1>2. ClientTypeOK /\ CallInv(c)
  BY DEF CallsInv, ClientInv
<1>3. /\ attempts[c] # <<>> /\ pc[Current(c)] = "done" /\ Current(c) \notin gone
      /\ outcome[c] = Result(status[Current(c)], Body(items[Current(c)]))
  BY <1>1, <1>2 DEF CallInv, Returned
<1>4. Current(c) \in Requests /\ Len(attempts[c]) \in DOMAIN attempts[c]
  BY <1>2, <1>3, CurrentIsRequest
<1> QED  BY <1>3, <1>4 DEF CallsInv, AnswersInv, TypeOK

(* Statuses and sentinels correspond.                                      *)
LEMMA Sentinels ==
    ASSUME NEW code \in {0, 200, 400, 404, 500}, NEW body
    PROVE  /\ Result(code, body).err = "nil" => code = 200
           /\ Result(code, body).err = "ErrNotFound" => code = 404
           /\ Result(code, body).err = "ErrBadRequest" => code = 400
           /\ Result(code, body).err = "ErrInternalServer" => code = 500
           /\ Result(code, body).err # "ErrUnauthorized"
           /\ Result(code, body).err = "nil" => Result(code, body).items = body /\ body # NULL
BY DEF Result, Failed, newStatusError

(* Whatever a call returns was true at some moment of the call.            *)
THEOREM CallsAreTruthful == ClientSpec => []CallsTellTheTruth
<1>1. ASSUME CallsInv, NEW c \in Calls PROVE ResultTrue(c)
  <2> SUFFICES ASSUME Returned(c, "nil") PROVE ResultTrue(c)
    BY DEF ResultTrue
  <2> DEFINE r == Current(c)
  <2>1. /\ r \in Requests /\ Len(attempts[c]) \in DOMAIN attempts[c]
        /\ pc[r] = "done" /\ outcome[c] = Result(status[r], Body(items[r]))
        /\ status[r] \in {0, 200, 400, 404, 500}
    BY <1>1, Heard DEF Errors
  <2>2. status[r] = 200 /\ outcome[c].items = items[r]
    BY <2>1, Sentinels, BodyShown DEF Returned
  <2>3. Versions(r) \subseteq CallVersions(c) /\ Instants(r) \subseteq CallInstants(c)
    BY <2>1 DEF CallVersions, CallInstants, Current
  <2>4. ListExact(r) /\ FoundExact(r)
    BY <1>1, <2>1 DEF CallsInv, AnswersInv, RequestInv
  <2> QED  BY <2>1, <2>2, <2>3, <2>4 DEF ResultTrue, ListExact, FoundExact, Answered,
           Asked
<1>2. ASSUME CallsInv, NEW c \in Calls PROVE NotFoundTrue(c)
  <2> SUFFICES ASSUME Returned(c, "ErrNotFound") PROVE NotFoundTrue(c)
    BY DEF NotFoundTrue
  <2> DEFINE r == Current(c)
  <2>1. /\ r \in Requests /\ Len(attempts[c]) \in DOMAIN attempts[c]
        /\ outcome[c] = Result(status[r], Body(items[r]))
        /\ status[r] \in {0, 200, 400, 404, 500}
    BY <1>2, Heard DEF Errors
  <2>2. status[r] = 404
    BY <2>1, Sentinels DEF Returned
  <2>3. Versions(r) \subseteq CallVersions(c)
    BY <2>1 DEF CallVersions, Current
  <2>4. MissingExact(r) /\ (query[r].op = "detail" /\ pc[r] # "idle" => query[r].id # NULL)
    BY <1>2, <2>1 DEF CallsInv, AnswersInv, RequestInv, IdsInv
  <2> QED  BY <2>2, <2>3, <2>4 DEF NotFoundTrue, MissingExact, Answered, Asked
<1>3. ASSUME CallsInv, NEW c \in Calls PROVE BadRequestTrue(c) /\ ~Returned(c, "ErrUnauthorized")
  <2>1. ASSUME Returned(c, "ErrBadRequest")
        PROVE  Asked(c).lang \notin SupportedLangs
    <3>1. status[Current(c)] = 400 /\ Current(c) \in Requests
      BY <1>3, <2>1, Heard, Sentinels DEF Errors, Returned
    <3> QED  BY <1>3, <3>1 DEF CallsInv, BadRequestExact, Asked
  <2>2. ~Returned(c, "ErrUnauthorized")
    BY <1>3, Heard, Sentinels DEF Errors, Returned
  <2> QED  BY <2>1, <2>2 DEF BadRequestTrue
<1>4. CallsInv => CallsTellTheTruth
  BY <1>1, <1>2, <1>3 DEF CallsTellTheTruth
<1> QED  BY <1>4, CallsInductive, PTL

(* errors.go:19: no call returns the 500 of a handler that had lost its    *)
(* client; one that is returned was caused by a failing dial, statement or *)
(* stream of that very handler, or by a stamp it could not scan.           *)
THEOREM InternalErrorsAreFaults == ClientSpec => []InternalErrorIsAFault
<1>1. ASSUME CallsInv, NEW c \in Calls, Returned(c, "ErrInternalServer")
      PROVE  /\ Current(c) \notin gone
             /\ Current(c) \in faulted \/ Poisoned(Current(c))
  <2>1. /\ Current(c) \in Requests /\ Current(c) \notin gone
        /\ status[Current(c)] = 500
    BY <1>1, Heard, Sentinels DEF Errors, Returned
  <2>2. HasCause(Current(c))
    BY <1>1, <2>1 DEF CallsInv, AnswersInv, RequestInv
  <2> QED  BY <2>1, <2>2 DEF HasCause
<1>2. CallsInv => InternalErrorIsAFault
  BY <1>1 DEF InternalErrorIsAFault
<1> QED  BY <1>2, CallsInductive, PTL

(* client.go:89-96: an error without a sentinel is the connection's, the   *)
(* context's, or that of a 200 with nothing in it.                         *)
THEOREM UnnamedErrorsHaveCause == ClientSpec => []UnnamedErrorHasCause
<1>1. ASSUME NEW code \in {200, 400, 404, 500}, NEW body, Result(code, body).err = "other"
      PROVE  code = 200 /\ body = NULL
  BY <1>1 DEF Result, newStatusError
<1>2. ASSUME CallsInv, NEW c \in Calls, Returned(c, "other"),
             ~(attempts[c] = <<>> \/ Current(c) \in broken)
      PROVE  status[Current(c)] = 200 /\ Body(items[Current(c)]) = NULL
  <2>1. ClientTypeOK /\ CallInv(c)
    BY <1>2 DEF CallsInv, ClientInv
  <2>2. /\ attempts[c] # <<>> /\ pc[Current(c)] = "done"
        /\ outcome[c] = Result(status[Current(c)], Body(items[Current(c)]))
    BY <1>2, <2>1 DEF CallInv, Returned
  <2>3. Current(c) \in Requests
    BY <2>1, <2>2, CurrentIsRequest
  <2>4. status[Current(c)] \in {200, 400, 404, 500}
    BY <1>2, <2>2, <2>3 DEF CallsInv, AnswersInv, TypeOK, BadRequestExact
  <2> QED  BY <1>1, <1>2, <2>2, <2>4 DEF Returned
<1>3. CallsInv => UnnamedErrorHasCause
  BY <1>2 DEF UnnamedErrorHasCause
<1> QED  BY <1>3, CallsInductive, PTL

-----------------------------------------------------------------------------
(* A call that is under way has been before the router with every request  *)
(* it sent.                                                                *)
SentInv ==
    \A c \in Calls : \A i \in DOMAIN attempts[c] : pc[attempts[c][i]] # "idle"

LEMMA IdleIsLeft ==
    ASSUME TypeOK, [Next]_vars, NEW r \in Requests, pc[r] # "idle"
    PROVE  pc'[r] # "idle"
<1> USE DEF serving
<1>1. ASSUME NEW s \in Requests, Serve(s) \/ Progress(s) \/ Fault(s)
      PROVE  pc'[r] # "idle"
  BY <1>1 DEF Serve, Progress, Fault, ServeHealth, RejectId, RejectLang, StartList,
       StartDetail, Begin, Enqueue, Acquire, ExecuteList, ScanRow, ScanFails, EndOfRows,
       ExecuteDetail, DetailFound, DetailMissing, DetailUnscannable, DialFails,
       AcquireCancelled, QueryFails, QueryCancelled, ClientGone, RepositoryFails, Fail,
       Answer, TypeOK
<1>2. CASE Editor \/ Tick \/ UNCHANGED vars
  BY <1>2 DEF Editor, Insert, SetPeriod, Translate, DropTranslation, Delete, Edit, Tick,
              vars
<1> QED  BY <1>1, <1>2 DEF Next

LEMMA NextSent ==
    TypeOK /\ ClientTypeOK /\ SentInv /\ [ClientNext]_clientVars => SentInv'
<1> SUFFICES ASSUME TypeOK, ClientTypeOK, SentInv, [ClientNext]_clientVars PROVE SentInv'
  OBVIOUS
<1> USE DEF client
<1>1. \A r \in Requests : pc[r] # "idle" => pc'[r] # "idle"
  BY ClientStep, IdleIsLeft
<1>2. ASSUME attempts' = attempts PROVE SentInv'
  BY <1>1, <1>2 DEF SentInv, ClientTypeOK
<1>3. ASSUME NEW c \in Calls, Send(c) \/ Retry(c) PROVE SentInv'
  <2>1. PICK r \in Requests : Request(c, r)
    BY <1>3 DEF Send, Retry
  <2>2. attempts' = [attempts EXCEPT ![c] = Append(@, r)]
    BY <2>1 DEF Request
  <2>3. pc'[r] # "idle"
    BY <2>1 DEF Request, ServeHealth, RejectLang, StartList, StartDetail, Fail, Answer,
         Enqueue, TypeOK
  <2>4. ASSUME NEW k \in Calls, NEW i \in DOMAIN attempts'[k]
        PROVE  pc'[attempts'[k][i]] # "idle"
    <3>1. CASE k = c
      <4>1. attempts[c] \in Seq(Requests) /\ attempts'[c] = Append(attempts[c], r)
        BY <2>2 DEF ClientTypeOK
      <4>2. CASE i = Len(attempts[c]) + 1
        BY <2>3, <3>1, <4>1, <4>2
      <4>3. CASE i # Len(attempts[c]) + 1
        <5>1. i \in DOMAIN attempts[c] /\ attempts'[c][i] = attempts[c][i]
          BY <3>1, <4>1, <4>3
        <5> QED  BY <1>1, <3>1, <4>1, <5>1 DEF SentInv
      <4> QED  BY <4>2, <4>3
    <3>2. CASE k # c
      <4>1. attempts'[k] = attempts[k] /\ attempts[k] \in Seq(Requests)
        BY <2>2, <3>2 DEF ClientTypeOK
      <4> QED  BY <1>1, <2>4, <4>1 DEF SentInv
    <3> QED  BY <3>1, <3>2
  <2> QED  BY <2>4 DEF SentInv
<1>4. CASE \/ \E c \in Calls :
                SendFails(c) \/ Receive(c) \/ Break(c) \/ GiveUp(c) \/ Cancel(c)
           \/ \E r \in Requests : HandlerStep(r) \/ Disconnected(r)
           \/ Environment \/ UNCHANGED clientVars
  BY <1>2, <1>4 DEF SendFails, Receive, Break, GiveUp, Cancel, HandlerStep, Disconnected,
       Environment, clientVars
<1> QED  BY <1>3, <1>4 DEF ClientNext

(* The safety half of EveryCallReturns: the request a call is waiting for  *)
(* is answered, or inside its query, or in the queue for a connection,     *)
(* where everybody gets his turn, also behind the request the call sent    *)
(* before (client.go:87-126, openapi_gen.go:191).                          *)
THEOREM CallsAreNotStuck ==
    ClientSpec =>
        [](/\ NobodyIsStranded
           /\ \A c \in Calls :
                InFlight(c) => pc[Current(c)] \in {"waiting", "querying", "rows", "done"})
<1>1. ClientInit => SentInv
  BY DEF ClientInit, SentInv
<1>2. CallsInv => TypeOK /\ ClientTypeOK
  BY DEF CallsInv, AnswersInv, ClientInv
<1>3. TypeOK /\ ClientTypeOK /\ SentInv =>
        \A c \in Calls :
            InFlight(c) => pc[Current(c)] \in {"waiting", "querying", "rows", "done"}
  <2> SUFFICES ASSUME TypeOK, ClientTypeOK, SentInv, NEW c \in Calls, InFlight(c)
               PROVE  pc[Current(c)] \in {"waiting", "querying", "rows", "done"}
    OBVIOUS
  <2>1. Current(c) \in Requests /\ Len(attempts[c]) \in DOMAIN attempts[c]
    BY CurrentIsRequest DEF InFlight
  <2> QED  BY <2>1 DEF SentInv, Current, TypeOK
<1>4. ClientSpec => []NobodyIsStranded
  BY ServiceUnderClient, TurnsCome
<1> QED
  BY <1>1, <1>2, <1>3, <1>4, NextSent, CallsInductive, PTL DEF ClientSpec
================================================================================
