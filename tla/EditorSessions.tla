---------------------------- MODULE EditorSessions ----------------------------
(***************************************************************************)
(* The transactions in which operators edit the tables of db/schema.sql:   *)
(* announcements, their translations and inquiries, under READ COMMITTED,  *)
(* with PostgreSQL's row locks, the cascading foreign key and the trigger  *)
(* that touches updated_at.                                                *)
(*                                                                         *)
(* A statement that has to wait for a lock is a step that is not enabled   *)
(* yet; a deadlock ends in a Rollback, as any error does.                  *)
(***************************************************************************)
EXTENDS Integers

CONSTANTS
    Sessions,       \* the operators' connections
    Announcements,  \* announcement_id values the IDENTITY can draw
    Langs,          \* values of announcement_translations.lang
    Inquiries,      \* inquiry_id values the IDENTITY can draw
    Texts,          \* contents of announcements and translations
    MaxTime,        \* bound: last reading of the database's clock
    NULL

(* A row is known by its primary key. *)
Translations == Announcements \X Langs
Parent(t) == t[1]
Children(a) == {a} \X Langs
Identities == Announcements \cup Inquiries
Keys == Identities \cup Translations

Times == 0..MaxTime
Statuses == {"new", "in_progress", "closed"}
Contents(k) == IF k \in Inquiries THEN Statuses ELSE Texts
Row == [content : Texts \cup Statuses, updated_at : Times]

ASSUME SessionsAssumption ==
    /\ MaxTime \in Nat
    /\ Translations \cap Identities = {}
    /\ Announcements \cap Inquiries = {}
    /\ NULL \notin Sessions \cup Times \cup Row

VARIABLES
    clock,   \* the database's clock
    began,   \* the time a session's transaction began, or NULL
    store,   \* the committed rows; NULL where there is none
    holder,  \* the session that has a row locked for itself, or NULL
    draft,   \* what that session makes of the row; NULL when deleted
    share,   \* the sessions that hold an announcement's key (FOR KEY SHARE)
    drawn    \* the identities already drawn

vars == <<clock, began, store, holder, draft, share, drawn>>

Init ==
    /\ clock = 0
    /\ began = [s \in Sessions |-> NULL]
    /\ store = [k \in Keys |-> NULL]
    /\ holder = [k \in Keys |-> NULL]
    /\ draft = [k \in Keys |-> NULL]
    /\ share = [a \in Announcements |-> {}]
    /\ drawn = {}

-----------------------------------------------------------------------------
(* now() is the time the transaction began, in DEFAULT and trigger alike.  *)
now(s) == began[s]

(* Mutant: the table has no trigger. *)
no_touch(s, old, content) == [content |-> content, updated_at |-> old.updated_at]

touch_updated_at(s, old, content) == [content |-> content, updated_at |-> now(s)]

(* What a session sees of a row, and may lock. *)
View(s, k) == IF holder[k] = s THEN draft[k] ELSE store[k]
Free(s, k) == holder[k] \in {NULL, s}

Write(s, k, row) ==
    /\ draft' = [draft EXCEPT ![k] = row]
    /\ holder' = [holder EXCEPT ![k] = s]
    /\ UNCHANGED <<clock, began, store>>

Begin(s) ==
    /\ began[s] = NULL
    /\ began' = [began EXCEPT ![s] = clock]
    /\ UNCHANGED <<clock, store, holder, draft, share, drawn>>

(* GENERATED ALWAYS AS IDENTITY: a rollback does not give the number back. *)
InsertNumbered(s) ==
    /\ began[s] # NULL
    /\ \E k \in Identities \ drawn : \E content \in Contents(k) :
        /\ Write(s, k, [content |-> content, updated_at |-> now(s)])
        /\ drawn' = drawn \cup {k}
    /\ UNCHANGED share

(* The announcement must be there, committed or one's own, and may be in   *)
(* the middle of an UPDATE of another session, but not of its DELETE.      *)
Referencable(s, a) ==
    /\ View(s, a) # NULL
    /\ holder[a] # NULL => draft[a] # NULL

(* Mutant: the parent is looked up but not locked. *)
InsertTranslationUnlocked(s) ==
    /\ began[s] # NULL
    /\ \E t \in Translations : \E content \in Texts :
        /\ Free(s, t) /\ View(s, t) = NULL
        /\ Referencable(s, Parent(t))
        /\ Write(s, t, [content |-> content, updated_at |-> now(s)])
    /\ UNCHANGED <<share, drawn>>

InsertTranslation(s) ==
    /\ began[s] # NULL
    /\ \E t \in Translations : \E content \in Texts :
        /\ Free(s, t) /\ View(s, t) = NULL
        /\ Referencable(s, Parent(t))
        /\ share' = [share EXCEPT ![Parent(t)] = @ \cup {s}]
        /\ Write(s, t, [content |-> content, updated_at |-> now(s)])
    /\ UNCHANGED drawn

(* Keys are not updated, so an UPDATE does not disturb those who hold the  *)
(* key.  The row updated is the one that is committed when the lock comes. *)
Update(s) ==
    /\ began[s] # NULL
    /\ \E k \in Keys : \E content \in Contents(k) :
        /\ Free(s, k) /\ View(s, k) # NULL
        /\ Write(s, k, touch_updated_at(s, View(s, k), content))
    /\ UNCHANGED <<share, drawn>>

DeleteRow(s) ==
    /\ began[s] # NULL
    /\ \E k \in Translations \cup Inquiries :
        /\ Free(s, k) /\ View(s, k) # NULL
        /\ Write(s, k, NULL)
    /\ UNCHANGED <<share, drawn>>

(* ON DELETE CASCADE: the rows that go, each of which must be free. *)
Cascade(s, a) == {a} \cup {t \in Children(a) : View(s, t) # NULL}

DeleteAnnouncement(s) ==
    /\ began[s] # NULL
    /\ \E a \in Announcements :
        /\ View(s, a) # NULL
        /\ \A k \in Cascade(s, a) : Free(s, k)
        /\ share[a] \subseteq {s}
        /\ draft' = [k \in Keys |-> IF k \in Cascade(s, a) THEN NULL ELSE draft[k]]
        /\ holder' = [k \in Keys |-> IF k \in Cascade(s, a) THEN s ELSE holder[k]]
    /\ UNCHANGED <<clock, began, store, share, drawn>>

(* The end of a transaction gives back every lock. *)
Release(s) ==
    /\ began' = [began EXCEPT ![s] = NULL]
    /\ holder' = [k \in Keys |-> IF holder[k] = s THEN NULL ELSE holder[k]]
    /\ draft' = [k \in Keys |-> IF holder[k] = s THEN NULL ELSE draft[k]]
    /\ share' = [a \in Announcements |-> share[a] \ {s}]
    /\ UNCHANGED <<clock, drawn>>

Commit(s) ==
    /\ began[s] # NULL
    /\ store' = [k \in Keys |-> View(s, k)]
    /\ Release(s)

(* By the operator, an error, a lost connection or the deadlock detector. *)
Rollback(s) ==
    /\ began[s] # NULL
    /\ Release(s)
    /\ UNCHANGED store

Tick ==
    /\ clock < MaxTime
    /\ clock' = clock + 1
    /\ UNCHANGED <<began, store, holder, draft, share, drawn>>

Next ==
    \/ \E s \in Sessions :
        \/ Begin(s) \/ InsertNumbered(s) \/ InsertTranslation(s) \/ Update(s)
        \/ DeleteRow(s) \/ DeleteAnnouncement(s) \/ Commit(s) \/ Rollback(s)
    \/ Tick

Spec == Init /\ [][Next]_vars

-----------------------------------------------------------------------------
(* Properties                                                              *)

(* The types of the tables and of the transactions' state. *)
TypeOK ==
    /\ clock \in Times
    /\ began \in [Sessions -> Times \cup {NULL}]
    /\ store \in [Keys -> Row \cup {NULL}]
    /\ holder \in [Keys -> Sessions \cup {NULL}]
    /\ draft \in [Keys -> Row \cup {NULL}]
    /\ share \in [Announcements -> SUBSET Sessions]
    /\ drawn \subseteq Identities

(* Whatever transactions overlap, no committed translation is without its  *)
(* announcement: one session's insert of a text and another's delete of    *)
(* the announcement cannot both go through (schema.sql:17).                *)
ReferencesHold ==
    \A t \in Translations : store[t] # NULL => store[Parent(t)] # NULL

(* A committed row changes only in one piece with its time: all rows that  *)
(* a commit changes carry the beginning of ONE transaction that was open,  *)
(* and no content changes under an old time (schema.sql:47-56).            *)
ChangesCarryTheirTime ==
    [][\E s \in Sessions :
        /\ began[s] # NULL
        /\ \A k \in Keys :
            store'[k] # store[k] /\ store'[k] # NULL
                => store'[k].updated_at = began[s]]_store
=============================================================================
