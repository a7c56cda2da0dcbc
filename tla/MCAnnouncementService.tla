------------------------ MODULE MCAnnouncementService ------------------------
(***************************************************************************)
(* AnnouncementService for TLC: one request against edits and the clock,   *)
(* or three on a pool of two, with tables that hold two announcements.     *)
(***************************************************************************)
EXTENDS AnnouncementRefinement

A(id, published, expires) ==
    [announcement_id |-> id, published_at |-> published, expires_at |-> expires]

T(id, lang, title) == [announcement_id |-> id, lang |-> lang, title |-> title]

(* One public announcement that expires at 1 beside one of the same stamp; *)
(* one '-infinity' row, which fails a list; stamps without a JSON form.    *)
SmallDbs ==
    {[announcements |-> {A(1, 0, 1), A(2, 0, NULL)},
      translations |-> {T(1, "ja", "t1"), T(2, "ja", "t1")}],
     [announcements |-> {A(1, 1, NULL), A(2, MinusInfinity, NULL)},
      translations |-> {T(1, "ja", "t1"), T(2, "ja", "t1")}],
     [announcements |-> {A(1, BeforeYear0, 1), A(2, AfterYear9999, NULL)},
      translations |-> {T(1, "ja", "t1"), T(2, "ja", "t1")}]}

(* The first alone, and without one of its texts. *)
OneDb ==
    {[announcements |-> {A(1, 0, 1), A(2, 0, NULL)},
      translations |-> {T(1, "ja", "t1"), T(2, "en", "t1")}]}

(* What editors write: NULL (draft, or no end) and the instant of the tick. *)
SmallStamps == {NULL, 1}
=============================================================================
