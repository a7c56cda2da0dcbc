--------------------------- MODULE AnnouncementData ---------------------------
(***************************************************************************)
(* The two announcement tables of db/schema.sql as sets of rows, and the   *)
(* two SELECTs of internal/repository/postgres as operators on them.       *)
(*                                                                         *)
(* A row keeps the columns a read can tell apart.  "type" and "body"       *)
(* travel with a row exactly as "title" does, so "title" stands for all    *)
(* three; created_at and updated_at are never read by the service.         *)
(***************************************************************************)
EXTENDS Integers, Sequences

CONSTANTS
    MaxId,        \* bound: announcement ids the IDENTITY column can reach
    MaxTime,      \* bound: last reading of the wall clock
    StoredLangs,  \* translations.lang values an editor writes (no CHECK)
    Titles,       \* localized contents, told apart by identity only
    NULL          \* SQL NULL, and "no value" elsewhere

ASSUME DataAssumption ==
    /\ MaxId \in Nat
    /\ MaxTime \in Nat
    /\ NULL \notin Int

(* domain.SupportedLangs: a list in the code, not a table. *)
SupportedLangs == {"ja", "en"}

Ids == 1..MaxId
Times == 0..MaxTime

(* A TIMESTAMPTZ is an instant, '-infinity' or 'infinity'.  Only an        *)
(* instant can be scanned into time.Time (a NULL needs *time.Time), and    *)
(* only one of the years 0 to 9999 has a JSON form.  One stamp stands for  *)
(* the instants before them and one for those after.                       *)
MinusInfinity == -2
BeforeYear0 == -1
AfterYear9999 == MaxTime + 1
PlusInfinity == MaxTime + 2
Stamps == MinusInfinity..PlusInfinity
Scannable(stamp) == stamp \in (BeforeYear0..AfterYear9999) \cup {NULL}
Renderable(stamp) == stamp \in Times \cup {NULL}

Announcement == [announcement_id : Ids,
                 published_at : Stamps \cup {NULL},
                 expires_at : Stamps \cup {NULL}]

Translation == [announcement_id : Ids, lang : StoredLangs, title : Titles]

Database == [announcements : SUBSET Announcement,
             translations : SUBSET Translation]

(* A row of either result set; the detail query may see a NULL stamp. *)
Row == [announcement_id : Ids, title : Titles, published_at : Stamps \cup {NULL}]

-----------------------------------------------------------------------------
(* The constraints PostgreSQL enforces: two primary keys, one foreign key. *)

AnnouncementKey(d) ==
    \A a, b \in d.announcements :
        a.announcement_id = b.announcement_id => a = b

TranslationKey(d) ==
    \A t, u \in d.translations :
        /\ t.announcement_id = u.announcement_id
        /\ t.lang = u.lang
        => t = u

NoOrphan(d) ==
    \A t \in d.translations :
        \E a \in d.announcements : a.announcement_id = t.announcement_id

WellFormed(d) == AnnouncementKey(d) /\ TranslationKey(d) /\ NoOrphan(d)

-----------------------------------------------------------------------------
(* The queries.  Joined is the INNER JOIN both share.                      *)

Joined(d, lang) ==
    {p \in d.announcements \X d.translations :
        /\ p[2].announcement_id = p[1].announcement_id
        /\ p[2].lang = lang}

Published(a, now) ==
    /\ a.published_at # NULL
    /\ a.published_at <= now
    /\ \/ a.expires_at = NULL
       \/ a.expires_at > now

Selected(p) == [announcement_id |-> p[1].announcement_id,
                title |-> p[2].title,
                published_at |-> p[1].published_at]

(* ListPublished: the rows, whose order is Before. *)
Listing(d, lang, now) ==
    {Selected(p) : p \in {q \in Joined(d, lang) : Published(q[1], now)}}

(* ORDER BY published_at DESC, announcement_id DESC *)
Before(a, b) ==
    \/ a.published_at > b.published_at
    \/ /\ a.published_at = b.published_at
       /\ a.announcement_id > b.announcement_id

(* GetPublishedDetail: no period in the WHERE, drafts included. *)
DetailRows(d, id, lang) ==
    {Selected(p) : p \in {q \in Joined(d, lang) : q[1].announcement_id = id}}

-----------------------------------------------------------------------------
(* The edits an operator makes with SQL; the schema decides what they may  *)
(* do.  The service itself never writes.                                   *)

InsertAnnouncement(d, id, published, expires) ==
    [d EXCEPT !.announcements = @ \cup
        {[announcement_id |-> id, published_at |-> published, expires_at |-> expires]}]

UpdatePeriod(d, a, published, expires) ==
    [d EXCEPT !.announcements = (@ \ {a}) \cup
        {[a EXCEPT !.published_at = published, !.expires_at = expires]}]

(* INSERT, or UPDATE of the row with the same primary key. *)
PutTranslation(d, id, lang, title) ==
    [d EXCEPT !.translations =
        {t \in @ : ~(t.announcement_id = id /\ t.lang = lang)} \cup
        {[announcement_id |-> id, lang |-> lang, title |-> title]}]

RemoveTranslation(d, t) == [d EXCEPT !.translations = @ \ {t}]

(* Mutant: the foreign key without ON DELETE CASCADE, unchecked. *)
DeleteWithoutCascade(d, a) == [d EXCEPT !.announcements = @ \ {a}]

(* ON DELETE CASCADE takes the translations along. *)
DeleteAnnouncement(d, a) ==
    [announcements |-> d.announcements \ {a},
     translations |-> {t \in d.translations : t.announcement_id # a.announcement_id}]
=============================================================================
