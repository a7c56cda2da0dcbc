---------------------------- MODULE MCSupportClient ----------------------------
(* The small tables of MCAnnouncementService, read by calls. *)
EXTENDS SupportClient, MCAnnouncementService

(* A row to list beside one without a JSON form, which an edit may take    *)
(* away; and one that cannot be scanned.                                   *)
CallDbs ==
    {[announcements |-> {A(1, 0, 1), A(2, BeforeYear0, NULL)},
      translations |-> {T(1, "ja", "t1"), T(2, "ja", "t1")}],
     [announcements |-> {A(2, MinusInfinity, NULL)},
      translations |-> {T(2, "ja", "t1")}]}
=============================================================================
