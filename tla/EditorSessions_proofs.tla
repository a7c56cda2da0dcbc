------------------------- MODULE EditorSessions_proofs -------------------------
(***************************************************************************)
(* The foreign key and the times of the rows hold for any number of        *)
(* sessions, announcements, languages and inquiries.                       *)
(***************************************************************************)
EXTENDS EditorSessions, TLAPS

-----------------------------------------------------------------------------
(* A translation belongs to one announcement, and is neither an            *)
(* announcement nor an inquiry.                                            *)
LEMMA KeyFacts ==
    /\ Announcements \subseteq Keys /\ Inquiries \subseteq Keys
    /\ Translations \subseteq Keys
    /\ \A t \in Translations : Parent(t) \in Announcements /\ t \notin Identities
    /\ \A a \in Announcements : Children(a) = {t \in Translations : Parent(t) = a}
<1>1. \A t \in Translations : Parent(t) \in Announcements
  BY DEF Translations, Parent
<1>2. ASSUME NEW a \in Announcements
      PROVE  Children(a) = {t \in Translations : Parent(t) = a}
  BY DEF Children, Translations, Parent
<1> QED  BY <1>1, <1>2, SessionsAssumption DEF Keys, Identities

(* What a session writes to a row is all that changes. *)
LEMMA WritePointwise ==
    ASSUME TypeOK, NEW s \in Sessions, NEW x \in Keys, NEW row, Write(s, x, row)
    PROVE  /\ \A k \in Keys : draft'[k] = IF k = x THEN row ELSE draft[k]
           /\ \A k \in Keys : holder'[k] = IF k = x THEN s ELSE holder[k]
           /\ UNCHANGED <<clock, began, store>>
BY DEF TypeOK, Write

LEMMA ReleasePointwise ==
    ASSUME TypeOK, NEW s \in Sessions, Release(s)
    PROVE  /\ \A k \in Keys : draft'[k] = IF holder[k] = s THEN NULL ELSE draft[k]
           /\ \A k \in Keys : holder'[k] = IF holder[k] = s THEN NULL ELSE holder[k]
           /\ \A a \in Announcements : share'[a] = share[a] \ {s}
           /\ \A o \in Sessions : began'[o] = IF o = s THEN NULL ELSE began[o]
BY DEF TypeOK, Release

-----------------------------------------------------------------------------
(* Type correctness.                                                       *)

LEMMA ContentsTyped == \A k : Contents(k) \subseteq Texts \cup Statuses
BY DEF Contents

LEMMA InitTypeOK == Init => TypeOK
BY SessionsAssumption DEF Init, TypeOK, Times

LEMMA WriteTyped ==
    ASSUME TypeOK, NEW s \in Sessions, NEW x \in Keys, NEW row \in Row \cup {NULL},
           Write(s, x, row)
    PROVE  /\ clock' \in Times /\ began' \in [Sessions -> Times \cup {NULL}]
           /\ store' \in [Keys -> Row \cup {NULL}]
           /\ holder' \in [Keys -> Sessions \cup {NULL}]
           /\ draft' \in [Keys -> Row \cup {NULL}]
BY DEF TypeOK, Write

(* A row made by an open session has the session's time. *)
LEMMA MadeTyped ==
    ASSUME TypeOK, NEW s \in Sessions, began[s] # NULL,
           NEW content \in Texts \cup Statuses
    PROVE  /\ [content |-> content, updated_at |-> now(s)] \in Row
           /\ \A old : touch_updated_at(s, old, content) \in Row
BY DEF TypeOK, Row, now, touch_updated_at

LEMMA NextTypeOK == TypeOK /\ [Next]_vars => TypeOK'
<1> SUFFICES ASSUME TypeOK, [Next]_vars PROVE TypeOK'
  OBVIOUS
<1>1. ASSUME NEW s \in Sessions, Begin(s) PROVE TypeOK'
  BY <1>1 DEF Begin, TypeOK
<1>2. ASSUME NEW s \in Sessions, InsertNumbered(s) PROVE TypeOK'
  <2>1. PICK k \in Identities \ drawn : \E content \in Contents(k) :
          /\ Write(s, k, [content |-> content, updated_at |-> now(s)])
          /\ drawn' = drawn \cup {k}
    BY <1>2 DEF InsertNumbered
  <2>2. PICK content \in Contents(k) :
          Write(s, k, [content |-> content, updated_at |-> now(s)])
    BY <2>1
  <2>3. [content |-> content, updated_at |-> now(s)] \in Row
    BY <1>2, MadeTyped, ContentsTyped DEF InsertNumbered
  <2>4. k \in Keys
    BY KeyFacts DEF Identities
  <2>5. drawn' \subseteq Identities /\ share' = share
    BY <1>2, <2>1 DEF InsertNumbered, TypeOK
  <2> QED  BY <2>2, <2>3, <2>4, <2>5, WriteTyped DEF TypeOK
<1>3. ASSUME NEW s \in Sessions, InsertTranslation(s) PROVE TypeOK'
  <2>1. PICK t \in Translations, content \in Texts :
          /\ share' = [share EXCEPT ![Parent(t)] = @ \cup {s}]
          /\ Write(s, t, [content |-> content, updated_at |-> now(s)])
    BY <1>3 DEF InsertTranslation
  <2>2. [content |-> content, updated_at |-> now(s)] \in Row
    BY <1>3, MadeTyped DEF InsertTranslation
  <2>3. t \in Keys /\ drawn' = drawn
    BY <1>3, KeyFacts DEF InsertTranslation
  <2>4. share' \in [Announcements -> SUBSET Sessions]
    BY <2>1 DEF TypeOK
  <2> QED  BY <2>1, <2>2, <2>3, <2>4, WriteTyped DEF TypeOK
<1>4. ASSUME NEW s \in Sessions, Update(s) PROVE TypeOK'
  <2>1. PICK k \in Keys : \E content \in Contents(k) :
          Write(s, k, touch_updated_at(s, View(s, k), content))
    BY <1>4 DEF Update
  <2> PICK content \in Contents(k) :
          Write(s, k, touch_updated_at(s, View(s, k), content))
    BY <2>1
  <2>2. touch_updated_at(s, View(s, k), content) \in Row
    BY <1>4, MadeTyped, ContentsTyped DEF Update
  <2> QED  BY <1>4, <2>2, WriteTyped DEF TypeOK, Update
<1>5. ASSUME NEW s \in Sessions, DeleteRow(s) PROVE TypeOK'
  BY <1>5, WriteTyped, KeyFacts DEF TypeOK, DeleteRow
<1>6. ASSUME NEW s \in Sessions, DeleteAnnouncement(s) PROVE TypeOK'
  BY <1>6 DEF TypeOK, DeleteAnnouncement
<1>7. ASSUME NEW s \in Sessions, Release(s), store' \in [Keys -> Row \cup {NULL}]
      PROVE  TypeOK'
  BY <1>7 DEF TypeOK, Release
<1>8. ASSUME NEW s \in Sessions, Commit(s) PROVE TypeOK'
  <2>1. store' \in [Keys -> Row \cup {NULL}]
    BY <1>8 DEF Commit, View, TypeOK
  <2> QED  BY <1>7, <1>8, <2>1 DEF Commit
<1>9. ASSUME NEW s \in Sessions, Rollback(s) PROVE TypeOK'
  BY <1>7, <1>9 DEF Rollback, TypeOK
<1>10. CASE Tick
  BY <1>10, SessionsAssumption DEF Tick, TypeOK, Times
<1>11. CASE UNCHANGED vars
  BY <1>11 DEF vars, TypeOK
<1> QED
  BY <1>1, <1>2, <1>3, <1>4, <1>5, <1>6, <1>8, <1>9, <1>10, <1>11 DEF Next

(* Every variable keeps its type, whatever the sessions do.                *)
THEOREM TypeCorrect == Spec => []TypeOK
BY InitTypeOK, NextTypeOK, PTL DEF Spec

-----------------------------------------------------------------------------
(* The inductive invariant.                                                *)

(* An identity not drawn yet has no row, committed or not. *)
Numbered == \A k \in Identities \ drawn : store[k] = NULL /\ holder[k] = NULL

(* Locks belong to open transactions. *)
OpenHolders == \A k \in Keys : holder[k] # NULL => began[holder[k]] # NULL

(* What a transaction writes carries its time. *)
Stamped ==
    \A k \in Keys : holder[k] # NULL /\ draft[k] # NULL
                        => draft[k].updated_at = began[holder[k]]

(* Who inserts a translation keeps the announcement's key. *)
Sharing ==
    \A t \in Translations : holder[t] # NULL /\ store[t] = NULL
                                => holder[t] \in share[Parent(t)]

(* A translation being written has an announcement nobody is deleting. *)
Supported ==
    \A t \in Translations : holder[t] # NULL /\ draft[t] # NULL
                                => Referencable(holder[t], Parent(t))

(* Who deletes an announcement has all its translations, deleted too. *)
Cascaded ==
    \A t \in Translations :
        LET a == Parent(t) IN
        holder[a] # NULL /\ draft[a] = NULL
            => /\ Free(holder[a], t)
               /\ holder[t] # NULL => draft[t] = NULL
               /\ store[t] # NULL => holder[t] # NULL

IInv ==
    /\ TypeOK /\ Numbered /\ OpenHolders /\ Stamped
    /\ Sharing /\ Supported /\ Cascaded /\ ReferencesHold

LEMMA InitIInv == Init => IInv
<1> SUFFICES ASSUME Init PROVE IInv
  OBVIOUS
<1>1. TypeOK
  BY InitTypeOK
<1>2. \A k \in Keys : store[k] = NULL /\ holder[k] = NULL
  BY DEF Init
<1>3. \A t \in Translations : t \in Keys /\ Parent(t) \in Keys
  BY KeyFacts
<1>4. Identities \subseteq Keys
  BY DEF Keys
<1> QED
  BY <1>1, <1>2, <1>3, <1>4
  DEF IInv, Numbered, OpenHolders, Stamped, Sharing, Supported, Cascaded,
      ReferencesHold

(* The variables of the invariant are typed, and translations are keys. *)
LEMMA Typed ==
    ASSUME IInv
    PROVE  /\ TypeOK
           /\ \A k \in Keys : holder[k] \in Sessions \cup {NULL}
           /\ \A t \in Translations :
                /\ t \in Keys /\ Parent(t) \in Keys /\ Parent(t) # t
                /\ Parent(t) \in Announcements /\ Parent(t) \in Identities
                /\ t \notin Identities
           /\ Identities \subseteq Keys /\ NULL \notin Sessions
<1>1. Announcements \subseteq Identities /\ Identities \subseteq Keys
  BY DEF Keys, Identities
<1>2. \A t \in Translations :
        /\ t \in Keys /\ t \notin Identities
        /\ Parent(t) \in Announcements /\ Parent(t) \in Identities
        /\ Parent(t) \in Keys /\ Parent(t) # t
  BY <1>1, KeyFacts
<1> QED  BY <1>1, <1>2, SessionsAssumption DEF IInv, TypeOK

(* What every statement that writes one row x leaves true of each row,     *)
(* when the row was free and is stamped with the transaction's time.       *)
LEMMA WriteKeeps ==
    ASSUME IInv, NEW s \in Sessions, NEW x \in Keys, NEW row, Write(s, x, row),
           began[s] # NULL, Free(s, x), row # NULL => row.updated_at = began[s]
    PROVE  OpenHolders' /\ Stamped' /\ ReferencesHold'
<1> DEFINE W == \A k \in Keys :
                    /\ draft'[k] = IF k = x THEN row ELSE draft[k]
                    /\ holder'[k] = IF k = x THEN s ELSE holder[k]
<1>1. W /\ began' = began /\ store' = store
  BY WritePointwise DEF IInv
<1>2. OpenHolders'
  BY <1>1 DEF OpenHolders, IInv
<1>3. Stamped'
  BY <1>1 DEF Stamped, IInv
<1>4. ReferencesHold'
  BY <1>1 DEF ReferencesHold, IInv
<1> QED  BY <1>2, <1>3, <1>4

(* A transaction sees nothing of the translations of an announcement that  *)
(* is being deleted, by itself or by another, that it could write to.      *)
LEMMA DeletedUnseen ==
    ASSUME IInv, NEW s \in Sessions, NEW t \in Translations,
           holder[Parent(t)] # NULL, draft[Parent(t)] = NULL,
           Free(s, t), View(s, t) # NULL
    PROVE  FALSE
<1>1. /\ Free(holder[Parent(t)], t)
      /\ holder[t] # NULL => draft[t] = NULL
      /\ store[t] # NULL => holder[t] # NULL
  BY DEF IInv, Cascaded
<1> QED  BY <1>1, Typed DEF Free, View

LEMMA InsertNumberedKeeps ==
    ASSUME IInv, NEW s \in Sessions, InsertNumbered(s)
    PROVE  IInv'
<1>1. PICK x \in Identities \ drawn : \E content \in Contents(x) :
        /\ Write(s, x, [content |-> content, updated_at |-> now(s)])
        /\ drawn' = drawn \cup {x}
  BY DEF InsertNumbered
<1>2. PICK content \in Contents(x) :
        Write(s, x, [content |-> content, updated_at |-> now(s)])
  BY <1>1
<1> DEFINE row == [content |-> content, updated_at |-> now(s)]
<1>3. x \in Keys /\ store[x] = NULL /\ holder[x] = NULL
  BY Typed DEF IInv, Numbered
<1>4. row \in Row /\ row.updated_at = began[s] /\ began[s] # NULL
  BY MadeTyped, ContentsTyped DEF InsertNumbered, now, IInv
<1>5. row # NULL
  BY <1>4, SessionsAssumption
<1>6. Write(s, x, row)
  BY <1>2
<1> HIDE DEF row
<1>7. /\ \A k \in Keys : draft'[k] = IF k = x THEN row ELSE draft[k]
      /\ \A k \in Keys : holder'[k] = IF k = x THEN s ELSE holder[k]
      /\ store' = store /\ began' = began /\ share' = share
  BY <1>3, <1>6, WritePointwise DEF IInv, InsertNumbered
<1>8. TypeOK'
  BY NextTypeOK DEF IInv, Next
<1>9. OpenHolders' /\ Stamped' /\ ReferencesHold'
  BY <1>3, <1>4, <1>6, WriteKeeps DEF Free
<1>10. Numbered'
  BY <1>1, <1>7, Typed DEF Numbered, IInv
<1>11. ASSUME NEW t \in Translations
       PROVE  /\ t # x /\ holder'[t] = holder[t] /\ draft'[t] = draft[t]
              /\ t \in Keys /\ Parent(t) \in Keys
  BY <1>7, Typed
<1>12. Sharing'
  BY <1>7, <1>11 DEF Sharing, IInv
<1>13. Supported'
  <2>1. ASSUME NEW t \in Translations, holder[t] # NULL, draft[t] # NULL
        PROVE  Referencable(holder[t], Parent(t))'
    <3>1. Referencable(holder[t], Parent(t))
      BY <2>1 DEF IInv, Supported
    <3>2. Parent(t) # x
      BY <1>3, <2>1, <3>1, Typed DEF Referencable, View
    <3> QED  BY <1>7, <1>11, <3>1, <3>2 DEF Referencable, View
  <2> QED  BY <2>1, <1>11 DEF Supported, Referencable, View
<1>14. Cascaded'
  BY <1>5, <1>7, <1>11 DEF Cascaded, Free, IInv
<1> QED  BY <1>8, <1>9, <1>10, <1>12, <1>13, <1>14 DEF IInv

LEMMA InsertTranslationKeeps ==
    ASSUME IInv, NEW s \in Sessions, InsertTranslation(s)
    PROVE  IInv'
<1>1. PICK x \in Translations, content \in Texts :
        /\ Free(s, x) /\ View(s, x) = NULL
        /\ Referencable(s, Parent(x))
        /\ share' = [share EXCEPT ![Parent(x)] = @ \cup {s}]
        /\ Write(s, x, [content |-> content, updated_at |-> now(s)])
  BY DEF InsertTranslation
<1> DEFINE row == [content |-> content, updated_at |-> now(s)]
<1>2. row.updated_at = began[s] /\ began[s] # NULL /\ Write(s, x, row)
  BY <1>1 DEF InsertTranslation, now
<1> HIDE DEF row
<1>3. \A a \in Announcements : /\ share[a] \subseteq share'[a]
                               /\ a = Parent(x) => s \in share'[a]
  BY <1>1 DEF IInv, TypeOK
<1>4. x \in Keys /\ drawn' = drawn
  BY Typed DEF InsertTranslation
<1>5. /\ \A k \in Keys : draft'[k] = IF k = x THEN row ELSE draft[k]
      /\ \A k \in Keys : holder'[k] = IF k = x THEN s ELSE holder[k]
      /\ store' = store /\ began' = began
  BY <1>2, <1>4, WritePointwise DEF IInv
<1>6. TypeOK'
  BY NextTypeOK DEF IInv, Next
<1>7. OpenHolders' /\ Stamped' /\ ReferencesHold'
  BY <1>1, <1>2, <1>4, WriteKeeps
<1>8. \A k \in Identities : k \in Keys /\ k # x
                            /\ holder'[k] = holder[k] /\ draft'[k] = draft[k]
  BY <1>5, Typed
<1>9. Numbered'
  BY <1>4, <1>5, <1>8 DEF Numbered, IInv
<1>10. ASSUME NEW t \in Translations
       PROVE  /\ t \in Keys /\ Parent(t) \in Identities /\ Parent(t) \in Announcements
              /\ holder'[Parent(t)] = holder[Parent(t)]
              /\ draft'[Parent(t)] = draft[Parent(t)]
  BY <1>8, Typed
<1>11. Sharing'
  BY <1>3, <1>5, <1>10 DEF Sharing, IInv
<1>12. ASSUME NEW t \in Translations, NEW o
       PROVE  Referencable(o, Parent(t))' <=> Referencable(o, Parent(t))
  BY <1>5, <1>10 DEF Referencable, View
<1>13. Supported'
  BY <1>1, <1>5, <1>10, <1>12 DEF Supported, IInv
<1>14. Cascaded'
  <2>1. ASSUME NEW t \in Translations, holder[Parent(t)] # NULL, draft[Parent(t)] = NULL
        PROVE  t # x
    BY <1>1, <2>1 DEF Referencable
  <2> QED  BY <1>5, <1>10, <2>1 DEF Cascaded, Free, IInv
<1> QED  BY <1>6, <1>7, <1>9, <1>11, <1>13, <1>14 DEF IInv

(* UPDATE and DELETE of a row x that the transaction sees: Supported and   *)
(* Cascaded do not depend on what is written, unless x is an announcement. *)
LEMMA RewriteKeeps ==
    ASSUME IInv, NEW s \in Sessions, NEW x \in Keys, NEW row, Write(s, x, row),
           began[s] # NULL, Free(s, x), View(s, x) # NULL,
           row # NULL => row.updated_at = began[s],
           x \in Announcements => row # NULL,
           UNCHANGED <<share, drawn>>, TypeOK'
    PROVE  IInv'
<1>1. /\ \A k \in Keys : draft'[k] = IF k = x THEN row ELSE draft[k]
      /\ \A k \in Keys : holder'[k] = IF k = x THEN s ELSE holder[k]
      /\ store' = store /\ share' = share /\ drawn' = drawn
  BY WritePointwise DEF IInv
<1>2. OpenHolders' /\ Stamped' /\ ReferencesHold'
  BY WriteKeeps
<1>3. Numbered'
  BY <1>1, Typed DEF Numbered, IInv, View, Free
<1>4. \A t \in Translations :
        /\ t \in Keys /\ Parent(t) \in Keys /\ Parent(t) # t
        /\ Parent(t) \in Announcements /\ NULL \notin Sessions
  BY Typed
<1>5. Sharing'
  BY <1>1, <1>4 DEF Sharing, IInv, View, Free
<1>6. ASSUME NEW t \in Translations, NEW o \in Sessions, Referencable(o, Parent(t))
      PROVE  Referencable(o, Parent(t))'
  BY <1>1, <1>4, <1>6 DEF Referencable, View, Free
<1>7. Supported'
  <2>1. ASSUME NEW t \in Translations, t # x, holder'[t] # NULL, draft'[t] # NULL
        PROVE  Referencable(holder[t], Parent(t))'
    <3>1. holder'[t] = holder[t] /\ draft'[t] = draft[t] /\ holder[t] \in Sessions
      BY <1>1, <1>4, <2>1, Typed
    <3>2. Referencable(holder[t], Parent(t))
      BY <2>1, <3>1 DEF Supported, IInv
    <3> QED  BY <1>1, <1>4, <3>1, <3>2 DEF Referencable, View, Free
  <2>2. ASSUME x \in Translations
        PROVE  Referencable(s, Parent(x))'
    <3>1. Referencable(s, Parent(x))
      <4>1. CASE holder[x] = s
        BY <1>4, <2>2, <4>1 DEF Supported, IInv, View
      <4>2. CASE holder[x] # s
        <5>1. store[x] # NULL /\ holder[x] = NULL
          BY <4>2 DEF View, Free
        <5>2. store[Parent(x)] # NULL
          BY <2>2, <5>1 DEF IInv, ReferencesHold
        <5>3. holder[Parent(x)] # NULL => draft[Parent(x)] # NULL
          BY <2>2, DeletedUnseen
        <5> QED  BY <5>2, <5>3, <1>4, <2>2 DEF Referencable, View
      <4> QED  BY <4>1, <4>2
    <3> QED  BY <1>6, <2>2, <3>1
  <2>3. \A t \in Translations : t = x => holder'[t] = s
    BY <1>1, <1>4
  <2> QED  BY <2>1, <2>2, <2>3 DEF Supported, Referencable, View
<1>8. Cascaded'
  <2>1. ASSUME NEW t \in Translations, holder'[Parent(t)] # NULL, draft'[Parent(t)] = NULL
        PROVE  /\ Parent(t) # x /\ t # x
               /\ holder[Parent(t)] # NULL /\ draft[Parent(t)] = NULL
    <3>1. Parent(t) # x
      BY <1>1, <1>4, <2>1
    <3>2. holder[Parent(t)] # NULL /\ draft[Parent(t)] = NULL
      BY <1>1, <1>4, <2>1, <3>1
    <3>3. t # x
      BY <3>2, DeletedUnseen
    <3> QED  BY <3>1, <3>2, <3>3
  <2> QED  BY <1>1, <1>4, <2>1 DEF Cascaded, Free, IInv
<1> QED  BY <1>2, <1>3, <1>5, <1>7, <1>8 DEF IInv

LEMMA UpdateKeeps ==
    ASSUME IInv, NEW s \in Sessions, Update(s)
    PROVE  IInv'
<1>1. PICK x \in Keys : \E content \in Contents(x) :
        /\ Free(s, x) /\ View(s, x) # NULL
        /\ Write(s, x, touch_updated_at(s, View(s, x), content))
  BY DEF Update
<1> PICK content \in Contents(x) :
        Write(s, x, touch_updated_at(s, View(s, x), content))
  BY <1>1
<1> DEFINE row == touch_updated_at(s, View(s, x), content)
<1>2. row \in Row /\ began[s] # NULL
  BY MadeTyped, ContentsTyped DEF Update, IInv
<1>3. row # NULL /\ row.updated_at = began[s]
  BY <1>2, SessionsAssumption DEF touch_updated_at, now
<1>4. TypeOK' /\ UNCHANGED <<share, drawn>>
  BY NextTypeOK DEF IInv, Next, Update
<1> HIDE DEF row
<1> QED  BY <1>1, <1>2, <1>3, <1>4, RewriteKeeps DEF row

LEMMA DeleteRowKeeps ==
    ASSUME IInv, NEW s \in Sessions, DeleteRow(s)
    PROVE  IInv'
<1>1. PICK x \in Translations \cup Inquiries :
        Free(s, x) /\ View(s, x) # NULL /\ Write(s, x, NULL)
  BY DEF DeleteRow
<1>2. x \in Keys /\ x \notin Announcements
  BY KeyFacts, SessionsAssumption DEF Identities
<1>3. TypeOK' /\ UNCHANGED <<share, drawn>> /\ began[s] # NULL
  BY NextTypeOK DEF IInv, Next, DeleteRow
<1> QED  BY <1>1, <1>2, <1>3, RewriteKeeps

LEMMA DeleteAnnouncementKeeps ==
    ASSUME IInv, NEW s \in Sessions, DeleteAnnouncement(s)
    PROVE  IInv'
<1>1. PICK a \in Announcements :
        /\ View(s, a) # NULL
        /\ \A k \in Cascade(s, a) : Free(s, k)
        /\ share[a] \subseteq {s}
        /\ draft' = [k \in Keys |-> IF k \in Cascade(s, a) THEN NULL ELSE draft[k]]
        /\ holder' = [k \in Keys |-> IF k \in Cascade(s, a) THEN s ELSE holder[k]]
  BY DEF DeleteAnnouncement
<1>2. /\ \A k \in Keys : draft'[k] = IF k \in Cascade(s, a) THEN NULL ELSE draft[k]
      /\ \A k \in Keys : holder'[k] = IF k \in Cascade(s, a) THEN s ELSE holder[k]
  BY <1>1
<1>3. began[s] # NULL /\ UNCHANGED <<clock, began, store, share, drawn>>
  BY DEF DeleteAnnouncement
<1>4. \A t \in Translations :
        /\ t \in Keys /\ Parent(t) \in Keys /\ Parent(t) \in Identities
        /\ t \notin Identities /\ NULL \notin Sessions
  BY Typed
<1>5. /\ a \in Cascade(s, a)
      /\ \A k \in Identities : k \in Cascade(s, a) => k = a
      /\ \A t \in Translations : t \in Cascade(s, a)
                                    <=> Parent(t) = a /\ View(s, t) # NULL
  <2>1. a \in Identities
    BY DEF Identities
  <2>2. Children(a) = {t \in Translations : Parent(t) = a}
    BY KeyFacts
  <2> QED  BY <1>4, <2>1, <2>2 DEF Cascade
<1>6. TypeOK'
  BY NextTypeOK DEF IInv, Next
<1>7. OpenHolders' /\ Stamped' /\ ReferencesHold'
  BY <1>2, <1>3 DEF OpenHolders, Stamped, ReferencesHold, IInv
<1>8. Numbered'
  <2>1. a \in drawn
    BY <1>1, Typed DEF IInv, Numbered, View, Identities
  <2> QED  BY <1>2, <1>3, <1>5, <2>1, Typed DEF Numbered, IInv
<1>9. Sharing'
  <2>1. ASSUME NEW t \in Translations, t \in Cascade(s, a), store[t] = NULL
        PROVE  holder[t] = s
    BY <1>5, <2>1 DEF View
  <2> QED  BY <1>2, <1>3, <1>4, <2>1 DEF Sharing, IInv
(* A translation of a that somebody else wrote would share a's key. *)
<1>10. ASSUME NEW t \in Translations, Parent(t) = a
       PROVE  holder'[t] \in {NULL, s} /\ (holder'[t] # NULL => draft'[t] = NULL)
  <2>1. CASE View(s, t) # NULL
    BY <1>2, <1>4, <1>5, <1>10, <2>1
  <2>2. CASE View(s, t) = NULL
    <3>1. holder'[t] = holder[t] /\ draft'[t] = draft[t]
      BY <1>2, <1>4, <1>5, <2>2
    <3>2. CASE holder[t] = s
      BY <2>2, <3>1, <3>2 DEF View
    <3>3. CASE holder[t] # s
      <4>1. store[t] = NULL
        BY <2>2, <3>3 DEF View
      <4>2. holder[t] # NULL => holder[t] \in share[a]
        BY <1>10, <4>1 DEF IInv, Sharing
      <4> QED  BY <1>1, <3>1, <3>3, <4>2
    <3> QED  BY <3>2, <3>3
  <2> QED  BY <2>1, <2>2
<1>11. ASSUME NEW t \in Translations, Parent(t) # a
       PROVE  /\ holder'[t] = holder[t] /\ draft'[t] = draft[t]
              /\ holder'[Parent(t)] = holder[Parent(t)]
              /\ draft'[Parent(t)] = draft[Parent(t)]
  BY <1>2, <1>4, <1>5, <1>11
<1>12. Supported'
  <2>1. ASSUME NEW t \in Translations, holder'[t] # NULL, draft'[t] # NULL
        PROVE  Referencable(holder[t], Parent(t))'
    <3>1. Parent(t) # a
      BY <1>10, <2>1
    <3>2. Referencable(holder[t], Parent(t))
      BY <1>11, <2>1, <3>1 DEF IInv, Supported
    <3> QED  BY <1>3, <1>11, <3>1, <3>2 DEF Referencable, View
  <2> QED  BY <2>1 DEF Supported
<1>13. Cascaded'
  <2>1. ASSUME NEW t \in Translations, Parent(t) = a
        PROVE  /\ holder'[a] = s /\ holder'[t] \in {NULL, s}
               /\ holder'[t] # NULL => draft'[t] = NULL
               /\ store'[t] # NULL => holder'[t] # NULL
    <3>1. holder'[a] = s
      BY <1>2, <1>4, <1>5, <2>1
    <3>2. store[t] # NULL /\ holder[t] = NULL => View(s, t) # NULL
      BY <1>4 DEF View
    <3>3. View(s, t) # NULL => holder'[t] = s
      BY <1>2, <1>4, <1>5, <2>1
    <3>4. View(s, t) = NULL => holder'[t] = holder[t]
      BY <1>2, <1>4, <1>5
    <3> QED  BY <1>3, <1>4, <1>10, <2>1, <3>1, <3>2, <3>3, <3>4
  <2> QED  BY <1>3, <1>11, <2>1 DEF Cascaded, Free, IInv
<1> QED  BY <1>3, <1>6, <1>7, <1>8, <1>9, <1>12, <1>13 DEF IInv

(* The end of a transaction, whether its rows are stored or not. *)
LEMMA ReleaseKeeps ==
    ASSUME IInv, NEW s \in Sessions, Release(s), TypeOK',
           \/ \A k \in Keys : store'[k] = View(s, k)
           \/ store' = store
    PROVE  IInv'
<1>1. /\ \A k \in Keys : draft'[k] = IF holder[k] = s THEN NULL ELSE draft[k]
      /\ \A k \in Keys : holder'[k] = IF holder[k] = s THEN NULL ELSE holder[k]
      /\ \A a \in Announcements : share'[a] = share[a] \ {s}
      /\ \A o \in Sessions : began'[o] = IF o = s THEN NULL ELSE began[o]
  BY ReleasePointwise DEF IInv
<1>2. drawn' = drawn
  BY DEF Release
(* Rows that others hold, or nobody, are as they were. *)
<1>3. \A k \in Keys : holder[k] # s => store'[k] = store[k]
  BY DEF View
<1>4. /\ \A k \in Keys : holder[k] \in Sessions \cup {NULL}
      /\ NULL \notin Sessions
      /\ Identities \subseteq Keys
      /\ \A t \in Translations : t \in Keys /\ Parent(t) \in Keys
                                  /\ Parent(t) \in Announcements
  BY Typed
<1>5. Numbered'
  BY <1>1, <1>2, <1>3, <1>4 DEF Numbered, IInv
<1>6. OpenHolders'
  BY <1>1, <1>4 DEF OpenHolders, IInv
<1>7. Stamped'
  BY <1>1, <1>4 DEF Stamped, IInv
<1>8. Sharing'
  BY <1>1, <1>3, <1>4 DEF Sharing, IInv
<1>9. Cascaded'
  BY <1>1, <1>3, <1>4 DEF Cascaded, Free, IInv
<1>10. Supported'
  <2>1. ASSUME NEW t \in Translations, holder'[t] # NULL, draft'[t] # NULL
        PROVE  Referencable(holder[t], Parent(t))'
    <3> DEFINE a == Parent(t)
    <3>1. /\ holder'[t] = holder[t] /\ draft'[t] = draft[t]
          /\ holder[t] # s /\ holder[t] # NULL
      BY <1>1, <1>4, <2>1
    <3>2. View(holder[t], a) # NULL /\ (holder[a] # NULL => draft[a] # NULL)
      BY <2>1, <3>1 DEF IInv, Supported, Referencable
    <3>3. CASE holder[a] = s
      <4>1. store[a] # NULL /\ draft[a] # NULL
        BY <1>4, <3>1, <3>2, <3>3 DEF View
      <4>2. store'[a] # NULL
        BY <1>4, <3>3, <4>1 DEF View
      <4>3. holder'[a] = NULL
        BY <1>1, <1>4, <3>3
      <4> QED  BY <1>4, <3>1, <4>2, <4>3 DEF Referencable, View
    <3>4. CASE holder[a] # s
      BY <1>1, <1>3, <1>4, <3>1, <3>2, <3>4 DEF Referencable, View
    <3> QED  BY <3>3, <3>4
  <2> QED  BY <2>1 DEF Supported
<1>11. ReferencesHold'
  <2>1. CASE store' = store
    BY <2>1 DEF ReferencesHold, IInv
  <2>2. CASE \A k \in Keys : store'[k] = View(s, k)
    <3>1. ASSUME NEW t \in Translations, View(s, t) # NULL
          PROVE  View(s, Parent(t)) # NULL
      <4>1. CASE holder[t] = s
        BY <1>4, <3>1, <4>1 DEF IInv, Supported, Referencable, View
      <4>2. CASE holder[t] # s
        <5>1. store[t] # NULL /\ store[Parent(t)] # NULL
          BY <3>1, <4>2 DEF View, IInv, ReferencesHold
        <5>2. holder[Parent(t)] = s => draft[Parent(t)] # NULL
          BY <1>4, <4>2, <5>1 DEF IInv, Cascaded, Free
        <5> QED  BY <5>1, <5>2 DEF View
      <4> QED  BY <4>1, <4>2
    <3> QED  BY <1>4, <2>2, <3>1 DEF ReferencesHold
  <2> QED  BY <2>1, <2>2
<1> QED
  BY <1>5, <1>6, <1>7, <1>8, <1>9, <1>10, <1>11 DEF IInv

LEMMA NextIInv == IInv /\ [Next]_vars => IInv'
<1> SUFFICES ASSUME IInv, [Next]_vars PROVE IInv'
  OBVIOUS
<1> TypeOK'
  BY NextTypeOK DEF IInv
<1>1. ASSUME NEW s \in Sessions, Begin(s) PROVE IInv'
  <2>1. /\ \A o \in Sessions : began'[o] = IF o = s THEN clock ELSE began[o]
        /\ began[s] = NULL /\ clock # NULL
        /\ UNCHANGED <<clock, store, holder, draft, share, drawn>>
    BY <1>1, SessionsAssumption DEF Begin, IInv, TypeOK
  <2>2. OpenHolders' /\ Stamped'
    BY <2>1, Typed DEF OpenHolders, Stamped, IInv
  <2> QED
    BY <2>1, <2>2 DEF IInv, Numbered, Sharing, Supported, Cascaded, Free,
                      Referencable, View, ReferencesHold
<1>2. ASSUME NEW s \in Sessions, Commit(s) PROVE IInv'
  BY <1>2, ReleaseKeeps DEF Commit
<1>3. ASSUME NEW s \in Sessions, Rollback(s) PROVE IInv'
  BY <1>3, ReleaseKeeps DEF Rollback
<1>4. ASSUME UNCHANGED <<began, store, holder, draft, share, drawn>> PROVE IInv'
  BY <1>4 DEF IInv, Numbered, OpenHolders, Stamped, Sharing, Supported, Cascaded,
              Free, Referencable, View, ReferencesHold
<1>5. CASE Tick
  BY <1>4, <1>5 DEF Tick
<1>6. CASE UNCHANGED vars
  BY <1>4, <1>6 DEF vars
<1> QED
  BY <1>1, <1>2, <1>3, <1>5, <1>6, InsertNumberedKeeps, InsertTranslationKeeps,
     UpdateKeeps, DeleteRowKeeps, DeleteAnnouncementKeeps DEF Next

(* schema.sql:17: no interleaving of inserts of translations and deletes   *)
(* of announcements leaves a translation without its announcement.         *)
THEOREM ForeignKey == Spec => []ReferencesHold
<1>1. IInv => ReferencesHold
  BY DEF IInv
<1> QED  BY <1>1, InitIInv, NextIInv, PTL DEF Spec

(* schema.sql:47-56: the rows a commit changes carry the beginning of the  *)
(* transaction that wrote them.                                            *)
THEOREM Touched == Spec => ChangesCarryTheirTime
<1> DEFINE A == \E s \in Sessions :
        /\ began[s] # NULL
        /\ \A k \in Keys :
            store'[k] # store[k] /\ store'[k] # NULL
                => store'[k].updated_at = began[s]
<1>1. IInv /\ [Next]_vars => [A]_store
  <2> SUFFICES ASSUME IInv, [Next]_vars, store' # store PROVE A
    OBVIOUS
  <2>1. PICK s \in Sessions : Commit(s)
    BY DEF Next, vars, Begin, InsertNumbered, InsertTranslation, Update, DeleteRow,
           DeleteAnnouncement, Rollback, Tick, Write
  <2>2. \A k \in Keys : store'[k] = View(s, k)
    BY <2>1 DEF Commit
  <2>3. ASSUME NEW k \in Keys, store'[k] # store[k], store'[k] # NULL
        PROVE  store'[k].updated_at = began[s]
    <3>1. holder[k] = s /\ draft[k] # NULL /\ store'[k] = draft[k]
      BY <2>2, <2>3 DEF View
    <3> QED  BY <3>1, Typed DEF IInv, Stamped
  <2>4. began[s] # NULL
    BY <2>1 DEF Commit
  <2> QED  BY <2>3, <2>4
<1> QED  BY <1>1, InitIInv, NextIInv, PTL DEF Spec, ChangesCarryTheirTime

-----------------------------------------------------------------------------
(* Identities.                                                             *)

(* Drawn, gone, and nobody is about to write it.                           *)
Spent(k) ==
    /\ k \in drawn
    /\ store[k] = NULL
    /\ holder[k] # NULL => draft[k] = NULL

LEMMA SpentUnseen ==
    ASSUME NEW s, NEW k, Spent(k), s # NULL
    PROVE  View(s, k) = NULL
BY DEF Spent, View

LEMMA StaysSpent ==
    ASSUME TypeOK, NEW k \in Identities, Spent(k), [Next]_vars
    PROVE  Spent(k)'
<1>0. k \in Keys /\ k \notin Translations
  BY SessionsAssumption DEF Keys
<1>1. ASSUME NEW s \in Sessions, NEW j \in Keys, NEW row, Write(s, j, row), j # k,
             drawn \subseteq drawn'
      PROVE  Spent(k)'
  BY <1>0, <1>1, WritePointwise DEF Write, Spent, TypeOK
<1>2. ASSUME NEW s \in Sessions PROVE View(s, k) = NULL
  BY SpentUnseen, SessionsAssumption
<1>3. ASSUME NEW s \in Sessions, InsertNumbered(s) PROVE Spent(k)'
  BY <1>1, <1>3 DEF InsertNumbered, Spent, Keys
<1>4. ASSUME NEW s \in Sessions, InsertTranslation(s) PROVE Spent(k)'
  BY <1>0, <1>1, <1>4 DEF InsertTranslation, Keys
<1>5. ASSUME NEW s \in Sessions, Update(s) PROVE Spent(k)'
  BY <1>1, <1>2, <1>5 DEF Update
<1>6. ASSUME NEW s \in Sessions, DeleteRow(s) PROVE Spent(k)'
  BY <1>1, <1>2, <1>6 DEF DeleteRow, Keys, Identities
<1>7. ASSUME NEW s \in Sessions, DeleteAnnouncement(s) PROVE Spent(k)'
  BY <1>0, <1>2, <1>7 DEF DeleteAnnouncement, Cascade, Spent, Children
<1>8. ASSUME NEW s \in Sessions, Commit(s) \/ Rollback(s) PROVE Spent(k)'
  BY <1>0, <1>2, <1>8 DEF Commit, Rollback, Release, Spent
<1>9. ASSUME NEW s \in Sessions, Begin(s) PROVE Spent(k)'
  BY <1>9 DEF Begin, Spent
<1>10. CASE Tick \/ UNCHANGED vars
  BY <1>10 DEF Tick, vars, Spent
<1> QED
  BY <1>3, <1>4, <1>5, <1>6, <1>7, <1>8, <1>9, <1>10 DEF Next

LEMMA GoesSpent ==
    ASSUME IInv, NEW k \in Identities, store[k] # NULL, [Next]_vars, store'[k] = NULL
    PROVE  Spent(k)'
<1>1. k \in Keys /\ k \in drawn
  BY DEF Keys, IInv, Numbered
<1>2. PICK s \in Sessions : Commit(s)
  BY DEF Next, Begin, InsertNumbered, InsertTranslation, Update, DeleteRow,
         DeleteAnnouncement, Write, Rollback, Tick, vars
<1>3. holder[k] = s
  BY <1>1, <1>2 DEF Commit, View
<1> QED  BY <1>1, <1>2, <1>3 DEF Commit, Release, Spent

(* An announcement_id or inquiry_id that was committed and deleted does    *)
(* not come back, whatever overlaps and rolls back: what a consumer        *)
(* remembers by its id is gone for good (schema.sql:6, 27).  The service's *)
(* model draws ids that way.                                               *)
THEOREM NumbersUsedOnce ==
    ASSUME NEW k \in Identities
    PROVE  Spec => [](store[k] # NULL => [](store[k] = NULL => [](store[k] = NULL)))
<1> DEFINE There == store[k] # NULL
<1>1. IInv /\ There /\ [Next]_vars => There' \/ Spent(k)'
  BY GoesSpent
<1>2. IInv /\ Spent(k) /\ [Next]_vars => Spent(k)'
  BY StaysSpent DEF IInv
<1>3. Spent(k) => store[k] = NULL
  BY DEF Spent
<1>4. ~There <=> store[k] = NULL
  OBVIOUS
<1> QED  BY <1>1, <1>2, <1>3, <1>4, InitIInv, NextIInv, PTL DEF Spec
=============================================================================
